---------------------------- MODULE Spec2Model ----------------------------
(***************************************************************************)
(* Verification model of swagger-mcp-go: the circuit breaker (package      *)
(* circuitbreaker), the two rate limiters (package ratelimit), the spec    *)
(* registry (package registry), the hook manager (package hooks), the      *)
(* version manager (package versioning), the OpenAPI parser (package       *)
(* parser) and the auth-policy tools of the MCP server (package mcp).      *)
(* Each subsystem has its own specification over its own variables; the    *)
(* variables of the other subsystems stay at their initial values.  Time   *)
(* is a discrete clock `now`; a duration is a number of ticks.             *)
(***************************************************************************)
EXTENDS Integers, Sequences, FiniteSets, TLC

VARIABLES
    now,      \* the wall clock read by time.Now()
    cb,       \* the CircuitBreaker struct (state, counters, metrics)
    call,     \* per caller: its position in ExecuteWithFallback and what it got
    last,     \* ghost: the breaker step just taken
    run,      \* ghost: the run of consecutive equal results in the current state
    sw,       \* the SlidingWindowLimiter: windows map, window objects, callers
    tb,       \* the TokenBucketLimiter: buckets map, bucket objects, callers
    tk,       \* TestTokenBucketLimiter: the key's bucket and the log of its calls
    reg,      \* the Registry: specs map, event channel, janitor; ghost: last step
    hk,       \* the hooks Manager: hooks per type, and one call's running phase
    vm,       \* the VersionManager: a service's versions; the last resolution
    pv,       \* ParseVersion and Version.String: the last string and its parse
    ps,       \* the Parser: its routes; ghost: the last document, the routes before
    lk,       \* the Registry's mutex and each goroutine's position in a method
    srv,      \* the MCP server's auth-policy tools: entries on the heap, a reader
    ev,       \* the Registry's event stream: writers, r.mutex, channel; ghost: log
    ctl,      \* the MCP server's tools that name a service, over entries with a TTL
    mgr,      \* the breaker Manager: breakers map, m.mutex, m.enabled, callers
    hub       \* the websocket Hub: clients, their send channels, the goroutines

vars == <<now, cb, call, last, run, sw, tb, tk, reg, hk, vm, pv, ps, lk, srv, ev, ctl, mgr, hub>>
cbVars == <<cb, call, last, run>>
\* The variables of the event stream, the control surface, the breaker
\* Manager and the websocket Hub.
lateVars == <<ev, ctl, mgr, hub>>
\* The variables of every other subsystem.
oldVars == <<cb, call, last, run, sw, tb, tk, reg, hk, vm, pv, ps, lk, srv>>
rlVars == <<sw, tb, tk>>
\* The variables of the subsystems other than the breaker and the two limiters.
extVars == <<tk, reg, hk, vm, pv, ps, lk, srv, lateVars>>
\* The variables of the subsystems other than the limiters, the registry and hooks.
moreVars == <<vm, pv, ps, lk, srv, lateVars>>

(***************************************************************************)
(* Circuit breaker                                                         *)
(***************************************************************************)

\* Config of the modelled breaker, in ticks and counts.
MaxFailures == 2
ResetTimeout == 2
SuccessThreshold == 2
Timeout == 2

\* Bounds of the exploration: concurrent callers, calls in all, clock ticks.
NumCallers == 2
MaxRequests == 4
MaxTimeCB == 3

Callers == 1..NumCallers

StateClosed == "closed"
StateOpen == "open"
StateHalfOpen == "half-open"

NewCircuitBreaker ==
    [state |-> StateClosed, failures |-> 0, successes |-> 0,
     lastFailureTime |-> 0, nextAttempt |-> 0,
     totalRequests |-> 0, totalFailures |-> 0, totalSuccesses |-> 0,
     totalTimeouts |-> 0, totalRejected |-> 0]

\* setState that forgets to schedule nextAttempt on opening.
SetStateStale(b, s, t) ==
    CASE s = StateOpen -> [b EXCEPT !.state = s]
      [] s = StateClosed -> [b EXCEPT !.state = s, !.failures = 0, !.successes = 0]
      [] OTHER -> [b EXCEPT !.state = s, !.successes = 0]

\* setState that leaves the success count alone on closing.
SetStateKeepsSuccesses(b, s, t) ==
    CASE s = StateOpen -> [b EXCEPT !.state = s, !.nextAttempt = t + ResetTimeout]
      [] s = StateClosed -> [b EXCEPT !.state = s, !.failures = 0]
      [] OTHER -> [b EXCEPT !.state = s, !.successes = 0]

\* setState: the new state, and the bookkeeping of entering it.
SetState(b, s, t) ==
    CASE s = StateOpen -> [b EXCEPT !.state = s, !.nextAttempt = t + ResetTimeout]
      [] s = StateClosed -> [b EXCEPT !.state = s, !.failures = 0, !.successes = 0]
      [] OTHER -> [b EXCEPT !.state = s, !.successes = 0]

\* onFailure that opens one failure late (> instead of >=).
OnFailureLate(b, t) ==
    LET b1 == [b EXCEPT !.failures = @ + 1, !.totalFailures = @ + 1,
                        !.lastFailureTime = t, !.successes = 0]
    IN  CASE b1.state = StateClosed ->
               IF b1.failures > MaxFailures THEN SetState(b1, StateOpen, t) ELSE b1
          [] b1.state = StateHalfOpen -> SetState(b1, StateOpen, t)
          [] OTHER -> b1

\* onFailure that tolerates a failure in half-open.
OnFailureLenient(b, t) ==
    LET b1 == [b EXCEPT !.failures = @ + 1, !.totalFailures = @ + 1,
                        !.lastFailureTime = t, !.successes = 0]
    IN  CASE b1.state = StateClosed ->
               IF b1.failures >= MaxFailures THEN SetState(b1, StateOpen, t) ELSE b1
          [] OTHER -> b1

\* onFailure: count the failure; open from closed at the threshold, and from
\* half-open always.
OnFailure(b, t) ==
    LET b1 == [b EXCEPT !.failures = @ + 1, !.totalFailures = @ + 1,
                        !.lastFailureTime = t, !.successes = 0]
    IN  CASE b1.state = StateClosed ->
               IF b1.failures >= MaxFailures THEN SetState(b1, StateOpen, t) ELSE b1
          [] b1.state = StateHalfOpen -> SetState(b1, StateOpen, t)
          [] OTHER -> b1

\* onSuccess that closes half-open one success early.
OnSuccessEarly(b, t) ==
    LET b1 == [b EXCEPT !.totalSuccesses = @ + 1]
    IN  CASE b1.state = StateClosed -> [b1 EXCEPT !.failures = 0]
          [] b1.state = StateHalfOpen ->
               LET b2 == [b1 EXCEPT !.successes = @ + 1]
               IN  IF b2.successes + 1 >= SuccessThreshold
                   THEN SetState(b2, StateClosed, t) ELSE b2
          [] OTHER -> b1

\* onSuccess that keeps the failure count in closed.
OnSuccessKeeps(b, t) ==
    LET b1 == [b EXCEPT !.totalSuccesses = @ + 1]
    IN  CASE b1.state = StateClosed -> b1
          [] b1.state = StateHalfOpen ->
               LET b2 == [b1 EXCEPT !.successes = @ + 1]
               IN  IF b2.successes >= SuccessThreshold
                   THEN SetState(b2, StateClosed, t) ELSE b2
          [] OTHER -> b1

\* onSuccess: in closed forget the failures; in half-open count towards closing.
OnSuccess(b, t) ==
    LET b1 == [b EXCEPT !.totalSuccesses = @ + 1]
    IN  CASE b1.state = StateClosed -> [b1 EXCEPT !.failures = 0]
          [] b1.state = StateHalfOpen ->
               LET b2 == [b1 EXCEPT !.successes = @ + 1]
               IN  IF b2.successes >= SuccessThreshold
                   THEN SetState(b2, StateClosed, t) ELSE b2
          [] OTHER -> b1

\* onResult: one critical section, a failure iff the error is non-nil.
OnResult(b, failed, t) == IF failed THEN OnFailure(b, t) ELSE OnSuccess(b, t)

NoReturn == <<"none", "">>

\* Fallback handling that drops the fallback.
WithFallbackIgnored(f, e) == <<"error", e>>

\* `if fallback != nil { return fallback(ctx, err) }; return nil, err`
WithFallback(f, e) == IF f THEN <<"fallback", e>> ELSE <<"error", e>>

\* A caller outside a call; inside one, pc is its place in ExecuteWithFallback,
\* fb whether it passed a fallback, left the ticks until time.After(Timeout) fires.
\* Ghost stale: the breaker has opened since the call was admitted.
IdleCall == [pc |-> "idle", fb |-> FALSE, left |-> 0, stale |-> FALSE]

\* Ghost: the calls after a step that took the breaker from b0 to b1; when the
\* step opened the breaker, the calls in flight are stale from now on.
MarkStale(calls, b0, b1) ==
    IF b0.state # StateOpen /\ b1.state = StateOpen
    THEN [c \in DOMAIN calls |->
             IF calls[c].pc = "idle" THEN calls[c] ELSE [calls[c] EXCEPT !.stale = TRUE]]
    ELSE calls

\* A timeout that its own critical section already counts as a failure.
CountTimeoutAsFailure(b) == [b EXCEPT !.totalTimeouts = @ + 1, !.totalFailures = @ + 1]

\* The timeout case's own critical section: totalTimeouts++.
CountTimeout(b) == [b EXCEPT !.totalTimeouts = @ + 1]

\* Admission that lets a call through an open breaker before nextAttempt.
AdmitEager(b, t) ==
    CASE b.state = StateOpen -> [b EXCEPT !.state = StateHalfOpen]
      [] OTHER -> b

\* The breaker after the admission switch of ExecuteWithFallback.
Admit(b, t) ==
    CASE b.state = StateOpen /\ t < b.nextAttempt -> [b EXCEPT !.totalRejected = @ + 1]
      [] b.state = StateOpen -> [b EXCEPT !.state = StateHalfOpen]
      [] OTHER -> b

\* Whether the admission switch rejected the call.
Rejected(b0, b1) == b1.totalRejected # b0.totalRejected

\* Ghost: the last step that entered the breaker's critical section.  op names
\* the step, rec what it recorded (F a failure, S a success), from the
\* breaker's state before the step, ret what the caller got if the step
\* returned, fb whether that caller had passed a fallback.
NoStep ==
    [op |-> "init", rec |-> "none", from |-> StateClosed, ret |-> NoReturn, fb |-> FALSE]

\* Ghost: the results recorded one after the other, all of one kind, since the
\* breaker entered its current state: n consecutive failures or successes.
NoRun == [kind |-> "none", n |-> 0]
RunAfter(b0, b1, rec, reset) ==
    IF reset \/ b0.state # b1.state THEN NoRun
    ELSE IF rec = "none" THEN run
    ELSE IF run.kind = rec THEN [run EXCEPT !.n = @ + 1]
    ELSE [kind |-> rec, n |-> 1]
ConsecutiveFailures == IF run.kind = "F" THEN run.n ELSE 0
ConsecutiveSuccesses == IF run.kind = "S" THEN run.n ELSE 0

InitCB ==
    /\ cb = NewCircuitBreaker
    /\ call = [c \in Callers |-> IdleCall]
    /\ last = NoStep
    /\ run = NoRun

\* ExecuteWithFallback up to the select: count the request, run the admission
\* switch, and either return the rejection or start the executor goroutine
\* and the timeout timer.
Call(c, f) ==
    /\ call[c].pc = "idle"
    /\ cb.totalRequests < MaxRequests
    /\ LET b0 == [cb EXCEPT !.totalRequests = @ + 1]
           b1 == Admit(b0, now)
       IN  /\ cb' = b1
           /\ call' = [call EXCEPT ![c] =
                 IF Rejected(b0, b1) THEN IdleCall
                 ELSE [pc |-> "wait", fb |-> f, left |-> Timeout, stale |-> FALSE]]
           /\ last' = [NoStep EXCEPT !.op = "call", !.from = cb.state, !.fb = f,
                 !.ret = IF Rejected(b0, b1) THEN WithFallback(f, "circuit-open")
                         ELSE NoReturn]
           /\ run' = RunAfter(cb, b1, "none", FALSE)
    /\ UNCHANGED <<now, sw, tb, extVars>>

\* select case <-done: the executor goroutine has returned a value (failed
\* FALSE) or an error; record the result and return it.  The executor touches
\* nothing of the breaker, so its return and the receive are one step.
SelectDone(c, failed) ==
    /\ call[c].pc = "wait"
    /\ LET rec == IF failed THEN "F" ELSE "S"
           b1 == OnResult(cb, failed, now)
       IN  /\ cb' = b1
           /\ run' = RunAfter(cb, b1, rec, FALSE)
           /\ last' = [op |-> "done", rec |-> rec, from |-> cb.state,
                       ret |-> IF failed THEN <<"error", "upstream">>
                               ELSE <<"value", "ok">>,
                       fb |-> call[c].fb]
           /\ call' = MarkStale([call EXCEPT ![c] = IdleCall], cb, b1)
    /\ UNCHANGED <<now, sw, tb, extVars>>

\* select case <-time.After(Timeout), first critical section: totalTimeouts++.
SelectTimeout(c) ==
    /\ call[c].pc = "wait"
    /\ call[c].left = 0
    /\ cb' = CountTimeout(cb)
    /\ call' = [call EXCEPT ![c].pc = "tmo"]
    /\ last' = [NoStep EXCEPT !.op = "timeout", !.from = cb.state]
    /\ UNCHANGED <<now, run, sw, tb, extVars>>

\* The timeout case continued: onResult(timeout error), then the fallback or
\* the timeout error.
TimeoutResult(c) ==
    /\ call[c].pc = "tmo"
    /\ LET b1 == OnResult(cb, TRUE, now)
       IN  /\ cb' = b1
           /\ run' = RunAfter(cb, b1, "F", FALSE)
           /\ call' = MarkStale([call EXCEPT ![c] = IdleCall], cb, b1)
    /\ last' = [op |-> "timeout-result", rec |-> "F", from |-> cb.state,
                ret |-> WithFallback(call[c].fb, "timeout"), fb |-> call[c].fb]
    /\ UNCHANGED <<now, sw, tb, extVars>>

\* select case <-ctx.Done(): the call's context has been cancelled; record a
\* failure and return ctx.Err().
SelectCtx(c) ==
    /\ call[c].pc = "wait"
    /\ LET b1 == OnResult(cb, TRUE, now)
       IN  /\ cb' = b1
           /\ run' = RunAfter(cb, b1, "F", FALSE)
           /\ call' = MarkStale([call EXCEPT ![c] = IdleCall], cb, b1)
    /\ last' = [op |-> "ctx", rec |-> "F", from |-> cb.state,
                ret |-> <<"error", "cancelled">>, fb |-> call[c].fb]
    /\ UNCHANGED <<now, sw, tb, extVars>>

\* CircuitBreaker.Reset (Manager.ResetBreaker, Manager.ResetAll).
Reset ==
    /\ cb' = SetState(cb, StateClosed, now)
    /\ run' = NoRun
    /\ last' = [NoStep EXCEPT !.op = "reset", !.from = cb.state]
    /\ UNCHANGED <<now, call, sw, tb, extVars>>

\* One tick of the clock; the running timeout timers come one tick closer.
TickCB ==
    /\ now < MaxTimeCB
    /\ now' = now + 1
    /\ call' = [c \in Callers |->
                  IF call[c].pc = "wait" /\ call[c].left > 0
                  THEN [call[c] EXCEPT !.left = @ - 1] ELSE call[c]]
    /\ UNCHANGED <<cb, last, run, sw, tb, extVars>>

NextCB ==
    \/ \E c \in Callers, f \in BOOLEAN : Call(c, f)
    \/ \E c \in Callers, failed \in BOOLEAN : SelectDone(c, failed)
    \/ \E c \in Callers : SelectTimeout(c)
    \/ \E c \in Callers : TimeoutResult(c)
    \/ \E c \in Callers : SelectCtx(c)
    \/ Reset
    \/ TickCB

(***************************************************************************)
(* Circuit breaker: properties                                             *)
(***************************************************************************)

\* The step is the return of a call that waited on its executor.
ResultStep == \E c \in Callers : call[c].pc # "idle" /\ call'[c].pc = "idle"
RecordsFailure == ResultStep /\ last'.rec = "F"
RecordsSuccess == ResultStep /\ last'.rec = "S"
\* The step is the admission section of a call.
CallStep == cb'.totalRequests # cb.totalRequests
\* The step is a manual Reset that changed the breaker.
ResetStep == cb' # cb /\ last'.op = "reset"

\* C1: from closed the breaker opens exactly at the step that records the
\* MaxFailures-th consecutive failure: it opens at no other step, it does open
\* at that step, and it is never closed with MaxFailures consecutive failures.
C1_OpensExactlyAtMaxFailures ==
    [][ /\ (cb.state = StateClosed /\ cb'.state = StateOpen)
             => (RecordsFailure /\ ConsecutiveFailures + 1 = MaxFailures)
        /\ (cb.state = StateClosed /\ RecordsFailure
                /\ ConsecutiveFailures + 1 >= MaxFailures)
             => cb'.state = StateOpen
        /\ cb'.state = StateClosed => ConsecutiveFailures' < MaxFailures ]_vars

\* C1 witness: a failure recorded in closed has opened the breaker while
\* another call is still in flight.
C1_Witness ==
    /\ last.rec = "F" /\ last.from = StateClosed /\ cb.state = StateOpen
    /\ \E c \in Callers : call[c].pc # "idle"

\* C2: a call made while the breaker is open and the clock is before
\* nextAttempt returns the circuit-open error (or the fallback's answer to it),
\* no caller starts an executor in that step, and the breaker stays open.
C2_OpenRejectsWithoutUpstream ==
    [][ (CallStep /\ cb.state = StateOpen /\ now < cb.nextAttempt)
          => /\ last'.ret[2] = "circuit-open"
             /\ call' = call
             /\ cb'.state = StateOpen
             /\ cb'.totalRejected = cb.totalRejected + 1 ]_vars

\* C2 witness: a call has just been rejected with the circuit-open error.
C2_Witness ==
    last.op = "call" /\ last.ret = <<"error", "circuit-open">> /\ cb.state = StateOpen

\* C3 as claimed: every entry to open sets nextAttempt to now + ResetTimeout,
\* and open is left only to half-open, by a call admitted at or after
\* nextAttempt.
C3_OpenLeftOnlyToHalfOpen ==
    [][ /\ (cb.state # StateOpen /\ cb'.state = StateOpen)
             => cb'.nextAttempt = now + ResetTimeout
        /\ (cb.state = StateOpen /\ cb'.state # StateOpen)
             => /\ cb'.state = StateHalfOpen
                /\ CallStep
                /\ now >= cb.nextAttempt
                /\ \E c \in Callers : call[c].pc = "idle" /\ call'[c].pc = "wait" ]_vars

\* C3 amended: every entry to open sets nextAttempt to now + ResetTimeout and
\* nextAttempt stays put while open; open is left either to half-open, by a
\* call admitted at or after nextAttempt (every such call does it and is let
\* through), or to closed by a manual Reset.
C3_OpenLeftToHalfOpenOrReset ==
    [][ /\ (cb.state # StateOpen /\ cb'.state = StateOpen)
             => cb'.nextAttempt = now + ResetTimeout
        /\ (cb.state = StateOpen /\ cb'.state = StateOpen)
             => cb'.nextAttempt = cb.nextAttempt
        /\ (cb.state = StateOpen /\ cb'.state # StateOpen)
             => \/ /\ cb'.state = StateHalfOpen
                   /\ CallStep
                   /\ now >= cb.nextAttempt
                   /\ \E c \in Callers : call[c].pc = "idle" /\ call'[c].pc = "wait"
                \/ ResetStep /\ cb'.state = StateClosed
        /\ (CallStep /\ cb.state = StateOpen /\ now >= cb.nextAttempt)
             => /\ cb'.state = StateHalfOpen
                /\ \E c \in Callers : call[c].pc = "idle" /\ call'[c].pc = "wait" ]_vars

\* C3 witness: a call made at or after nextAttempt has moved the breaker from
\* open to half-open and waits on its executor.
C3_Witness ==
    /\ last.op = "call" /\ last.from = StateOpen /\ cb.state = StateHalfOpen
    /\ now >= cb.nextAttempt
    /\ \E c \in Callers : call[c].pc = "wait"

\* C4 as claimed: half-open becomes closed exactly at the step that records
\* the SuccessThreshold-th consecutive success since half-open was entered.
C4_ClosesExactlyAtThreshold ==
    [][ /\ (cb.state = StateHalfOpen /\ cb'.state = StateClosed)
             => (RecordsSuccess /\ ConsecutiveSuccesses + 1 = SuccessThreshold)
        /\ (cb.state = StateHalfOpen /\ RecordsSuccess
                /\ ConsecutiveSuccesses + 1 >= SuccessThreshold)
             => cb'.state = StateClosed
        /\ cb'.state = StateHalfOpen => ConsecutiveSuccesses' < SuccessThreshold ]_vars

\* C4 amended: half-open becomes closed at the step that records the
\* SuccessThreshold-th consecutive success since half-open was entered, at no
\* earlier success, and otherwise only by a manual Reset.
C4_ClosesAtThresholdOrReset ==
    [][ /\ (cb.state = StateHalfOpen /\ cb'.state = StateClosed)
             => \/ RecordsSuccess /\ ConsecutiveSuccesses + 1 = SuccessThreshold
                \/ ResetStep
        /\ (cb.state = StateHalfOpen /\ RecordsSuccess
                /\ ConsecutiveSuccesses + 1 >= SuccessThreshold)
             => cb'.state = StateClosed
        /\ cb'.state = StateHalfOpen => ConsecutiveSuccesses' < SuccessThreshold ]_vars

\* C4 witness: a success recorded in half-open has closed the breaker.
C4_Witness ==
    /\ last.rec = "S" /\ last.from = StateHalfOpen /\ cb.state = StateClosed
    /\ cb.successes = 0 /\ cb.failures = 0

\* C5: a failure recorded while the breaker is half-open opens it, whatever
\* the number of successes recorded in half-open so far.
C5_HalfOpenFailureReopens ==
    [][ (cb.state = StateHalfOpen /\ RecordsFailure)
          => (cb'.state = StateOpen /\ cb'.nextAttempt = now + ResetTimeout) ]_vars

\* C5 witness: a failure recorded in half-open has reopened the breaker.
C5_Witness ==
    last.rec = "F" /\ last.from = StateHalfOpen /\ cb.state = StateOpen

\* C6: a success recorded in closed sets the failure counter to zero and keeps
\* the breaker closed, and in closed the counter is the number of failures
\* recorded since the last success: failures before it no longer count.
C6_ClosedSuccessResetsFailures ==
    [][ /\ (cb.state = StateClosed /\ RecordsSuccess)
             => (cb'.failures = 0 /\ cb'.state = StateClosed)
        /\ cb'.state = StateClosed => cb'.failures = ConsecutiveFailures' ]_vars

\* C6 witness: a breaker that never opened has recorded a failure and then a
\* success, and its failure counter is zero again.
C6_Witness ==
    /\ last.rec = "S" /\ last.from = StateClosed /\ cb.state = StateClosed
    /\ cb.totalFailures >= 1 /\ cb.failures = 0
    /\ cb.nextAttempt = 0

\* C7 as claimed: a call that timed out returns the timeout error, records
\* exactly one failure and adds one to totalTimeouts.
C7_TimeoutReturnsTimeoutError ==
    [][ \A c \in Callers :
          /\ (call[c].pc = "wait" /\ call'[c].pc = "tmo")
               => (cb'.totalTimeouts = cb.totalTimeouts + 1
                   /\ cb'.totalFailures = cb.totalFailures)
          /\ (call[c].pc = "tmo" /\ call'[c].pc = "idle")
               => /\ last'.ret = <<"error", "timeout">>
                  /\ last'.rec = "F"
                  /\ cb'.totalFailures = cb.totalFailures + 1
                  /\ cb'.totalTimeouts = cb.totalTimeouts ]_vars

\* C7 amended: a call whose wait ends on the timeout returns the timeout
\* error, or the fallback's answer to it when a fallback was passed; it
\* records exactly one failure with the state machine (none at admission, none
\* in the step that counts the timeout, one in the step that returns) and adds
\* exactly one to totalTimeouts.
C7_TimeoutIsOneFailure ==
    [][ \A c \in Callers :
          /\ (call[c].pc = "idle" /\ call'[c].pc = "wait")
               => (cb'.totalFailures = cb.totalFailures
                   /\ cb'.totalTimeouts = cb.totalTimeouts)
          /\ (call[c].pc = "wait" /\ call'[c].pc = "tmo")
               => (cb'.totalTimeouts = cb.totalTimeouts + 1
                   /\ cb'.totalFailures = cb.totalFailures
                   /\ cb'.failures = cb.failures /\ cb'.state = cb.state)
          /\ call[c].pc = "tmo" => call'[c].pc \in {"tmo", "idle"}
          /\ (call[c].pc = "tmo" /\ call'[c].pc = "idle")
               => /\ last'.ret = <<IF call[c].fb THEN "fallback" ELSE "error", "timeout">>
                  /\ last'.rec = "F"
                  /\ cb'.totalFailures = cb.totalFailures + 1
                  /\ cb'.failures = cb.failures + 1
                  /\ cb'.totalTimeouts = cb.totalTimeouts ]_vars

\* C7 witness: a call without fallback has timed out and got the timeout error.
C7_Witness ==
    /\ last.op = "timeout-result" /\ last.ret = <<"error", "timeout">>
    /\ cb.totalTimeouts >= 1 /\ cb.totalFailures >= 1

\* C8: a call that passed a fallback and is rejected by the open breaker, or
\* times out, returns the fallback's answer to the circuit-open or timeout
\* error.
C8_FallbackReplacesError ==
    /\ (last.fb /\ last.op = "call" /\ last.ret # NoReturn)
         => last.ret = <<"fallback", "circuit-open">>
    /\ (last.fb /\ last.op = "timeout-result")
         => last.ret = <<"fallback", "timeout">>

\* C8 witness: a call with a fallback was rejected by the open breaker and got
\* the fallback's answer.
C8_Witness ==
    /\ last.op = "call" /\ last.from = StateOpen /\ last.fb
    /\ last.ret = <<"fallback", "circuit-open">>

(***************************************************************************)
(* Rate limiters.  One tick is five minutes, the period of the cleanup     *)
(* ticker; the idle limit of ten minutes is two ticks.  A limiter's map    *)
(* holds references to heap objects, so an object deleted from the map     *)
(* lives on for the Allow call that already fetched it.                    *)
(***************************************************************************)

Keys == {"a"}
NumProcs == 2
Procs == 1..NumProcs
MaxTimeRL == 3

\* time.NewTicker(5 * time.Minute) and the 10 * time.Minute idle limit, in ticks.
CleanupInterval == 1
IdleTimeout == 2

Min(a, b) == IF a < b THEN a ELSE b
Max(a, b) == IF a > b THEN a ELSE b

\* The next tick of a ticker of period CleanupInterval after time t.
NextTickAfter(t) == ((t \div CleanupInterval) + 1) * CleanupInterval

IdleProc == [pc |-> "idle", key |-> "", ref |-> 0, ret |-> <<"none", 0>>]

(***************************************************************************)
(* Sliding-window limiter                                                  *)
(***************************************************************************)

\* Config of the modelled limiter.
SWRequestsPerMinute == 1
SWWindowSize == 2
MaxAllowsSW == 3
MaxResetsSW == 1

NewSlidingWindowLimiter ==
    [windows |-> [k \in Keys |-> 0], obj |-> <<>>, p |-> [q \in Procs |-> IdleProc],
     adm |-> [k \in Keys |-> <<>>], nextClean |-> CleanupInterval,
     calls |-> 0, nreset |-> 0]

\* The requests of window w still inside the window that ends at t.
Prune(w, t) == SelectSeq(w, LAMBDA r : r > t - SWWindowSize)

\* SlidingWindowLimiter.Allow, first critical section (l.mutex): fetch the
\* key's window, creating an empty one when the map has none.
SWLookup(q, k) ==
    /\ sw.p[q].pc = "idle"
    /\ sw.calls < MaxAllowsSW
    /\ LET miss == sw.windows[k] = 0
           obj1 == IF miss THEN Append(sw.obj, <<>>) ELSE sw.obj
           ref == IF miss THEN Len(obj1) ELSE sw.windows[k]
       IN  sw' = [sw EXCEPT !.obj = obj1, !.windows[k] = ref, !.calls = @ + 1,
                            !.p[q] = [IdleProc EXCEPT !.pc = "have", !.key = k, !.ref = ref]]
    /\ UNCHANGED <<now, cbVars, tb, extVars>>

\* SlidingWindowLimiter.Allow, second critical section (w.mutex): prune, then
\* admit when fewer than requestsPerMinute requests remain.
SWCheck(q) ==
    /\ sw.p[q].pc = "have"
    /\ LET ref == sw.p[q].ref
           k == sw.p[q].key
           valid == Prune(sw.obj[ref], now)
       IN  IF Len(valid) < SWRequestsPerMinute
           THEN sw' = [sw EXCEPT !.obj[ref] = Append(valid, now),
                                 !.adm[k] = Append(@, now),
                                 !.p[q].pc = "idle", !.p[q].ret = <<"allowed", 0>>]
           ELSE sw' = [sw EXCEPT !.obj[ref] = valid, !.p[q].pc = "idle",
                                 !.p[q].ret = <<"denied",
                                     Max(0, valid[1] + SWWindowSize - now)>>]
    /\ UNCHANGED <<now, cbVars, tb, extVars>>

\* Whether the cleanup loop deletes the key's window at time t.
SWStale(w, t) == Len(w) = 0 \/ t - w[Len(w)] > IdleTimeout

\* SlidingWindowLimiter.cleanup, one ticker tick: delete the empty and the
\* idle windows from the map.
SWCleanup ==
    /\ now >= sw.nextClean
    /\ sw' = [sw EXCEPT !.nextClean = NextTickAfter(now),
                !.windows = [k \in Keys |->
                    IF sw.windows[k] # 0 /\ SWStale(sw.obj[sw.windows[k]], now)
                    THEN 0 ELSE sw.windows[k]]]
    /\ UNCHANGED <<now, cbVars, tb, extVars>>

\* SlidingWindowLimiter.Reset: delete the key from the map.
SWReset(k) ==
    /\ sw.nreset < MaxResetsSW
    /\ sw' = [sw EXCEPT !.windows[k] = 0, !.nreset = @ + 1]
    /\ UNCHANGED <<now, cbVars, tb, extVars>>

(***************************************************************************)
(* Token-bucket limiter.  Token counts are kept as multiples of            *)
(* 1/TBWindowSize of a token, so that the refill of one tick,              *)
(* requestsPerMinute / windowSize tokens, is a whole number.               *)
(***************************************************************************)

\* Config of the modelled limiter.
TBRequestsPerMinute == 1
TBWindowSize == 1
TBBurstSize == 2
MaxAllowsTB == 3
MaxResetsTB == 1

TBConfig ==
    [requestsPerMinute |-> TBRequestsPerMinute, windowSize |-> TBWindowSize,
     burstSize |-> TBBurstSize]

\* One token and the bucket's capacity under a config, in scaled units.
OneTokenOf(cfg) == cfg.windowSize
CapacityOf(cfg) == cfg.burstSize * cfg.windowSize

OneToken == OneTokenOf(TBConfig)
Capacity == CapacityOf(TBConfig)

NewTokenBucketLimiter ==
    [buckets |-> [k \in Keys |-> 0], obj |-> <<>>, p |-> [q \in Procs |-> IdleProc],
     adm |-> [k \in Keys |-> <<>>], nextClean |-> CleanupInterval,
     calls |-> 0, nreset |-> 0]

\* The bucket Allow creates for a key the map does not hold: full.
NewBucket(cfg, t) == [tokens |-> CapacityOf(cfg), lastRefill |-> t]

\* A refill that forgets the capacity of the bucket.
RefillUncapped(cfg, b, t) == b.tokens + (t - b.lastRefill) * cfg.requestsPerMinute

\* The bucket's tokens after the lazy refill at time t.
Refill(cfg, b, t) ==
    Min(CapacityOf(cfg), b.tokens + (t - b.lastRefill) * cfg.requestsPerMinute)

\* An Allow that admits without taking the token.
TakeTokenKeeps(cfg, b, t) ==
    LET tokens == Refill(cfg, b, t)
    IN  IF tokens >= OneTokenOf(cfg)
        THEN [b |-> [tokens |-> tokens, lastRefill |-> t], ret |-> <<"allowed", 0>>]
        ELSE [b |-> [tokens |-> tokens, lastRefill |-> t],
              ret |-> <<"denied", OneTokenOf(cfg) - tokens>>]

\* TokenBucketLimiter.Allow under b.mutex at time t: refill, then take one
\* token or report the wait for the next one.  The wait is
\* (1 - tokens) / (requestsPerMinute / windowSize) ticks; ret carries its
\* numerator over cfg.requestsPerMinute.
TakeToken(cfg, b, t) ==
    LET tokens == Refill(cfg, b, t)
    IN  IF tokens >= OneTokenOf(cfg)
        THEN [b |-> [tokens |-> tokens - OneTokenOf(cfg), lastRefill |-> t],
              ret |-> <<"allowed", 0>>]
        ELSE [b |-> [tokens |-> tokens, lastRefill |-> t],
              ret |-> <<"denied", OneTokenOf(cfg) - tokens>>]

\* TokenBucketLimiter.Allow, first critical section (l.mutex): fetch the
\* key's bucket, creating a full one when the map has none.
TBLookup(q, k) ==
    /\ tb.p[q].pc = "idle"
    /\ tb.calls < MaxAllowsTB
    /\ LET miss == tb.buckets[k] = 0
           obj1 == IF miss THEN Append(tb.obj, NewBucket(TBConfig, now)) ELSE tb.obj
           ref == IF miss THEN Len(obj1) ELSE tb.buckets[k]
       IN  tb' = [tb EXCEPT !.obj = obj1, !.buckets[k] = ref, !.calls = @ + 1,
                            !.p[q] = [IdleProc EXCEPT !.pc = "have", !.key = k, !.ref = ref]]
    /\ UNCHANGED <<now, cbVars, sw, extVars>>

\* TokenBucketLimiter.Allow, second critical section (b.mutex): refill, then
\* take one token or report the wait for the next one.
TBCheck(q) ==
    /\ tb.p[q].pc = "have"
    /\ LET ref == tb.p[q].ref
           k == tb.p[q].key
           r == TakeToken(TBConfig, tb.obj[ref], now)
       IN  tb' = [tb EXCEPT !.obj[ref] = r.b,
                            !.adm[k] = IF r.ret[1] = "allowed" THEN Append(@, now) ELSE @,
                            !.p[q].pc = "idle", !.p[q].ret = r.ret]
    /\ UNCHANGED <<now, cbVars, sw, extVars>>

\* TokenBucketLimiter.cleanup, one ticker tick: delete the buckets not
\* refilled for more than the idle limit.
TBCleanup ==
    /\ now >= tb.nextClean
    /\ tb' = [tb EXCEPT !.nextClean = NextTickAfter(now),
                !.buckets = [k \in Keys |->
                    IF tb.buckets[k] # 0 /\ now - tb.obj[tb.buckets[k]].lastRefill > IdleTimeout
                    THEN 0 ELSE tb.buckets[k]]]
    /\ UNCHANGED <<now, cbVars, sw, extVars>>

\* TokenBucketLimiter.Reset: delete the key from the map.
TBReset(k) ==
    /\ tb.nreset < MaxResetsTB
    /\ tb' = [tb EXCEPT !.buckets[k] = 0, !.nreset = @ + 1]
    /\ UNCHANGED <<now, cbVars, sw, extVars>>

TickRL ==
    /\ now < MaxTimeRL
    /\ now' = now + 1
    /\ UNCHANGED <<cbVars, sw, tb, extVars>>

(***************************************************************************)
(* TestTokenBucketLimiter: one goroutine calls Allow for one key of a      *)
(* limiter configured as in the test and sleeps between calls.  One tick   *)
(* is one second here, so the cleanup ticker (five minutes) never fires    *)
(* within the scenario.                                                    *)
(***************************************************************************)

\* Bounds of the scenario: calls made and seconds slept.
MaxTestCalls == 12
MaxTestTime == 3

\* The test's Config: 60 requests per window of 60 seconds, burst of 10.
TestConfig == [requestsPerMinute |-> 60, windowSize |-> 60, burstSize |-> 10]

NoBucket == [tokens |-> -1, lastRefill |-> -1]

NewTest == [b |-> NoBucket, log |-> <<>>]

\* limiter.Allow(key), both critical sections, with no other goroutine.
TestAllow ==
    /\ Len(tk.log) < MaxTestCalls
    /\ LET b0 == IF tk.b = NoBucket THEN NewBucket(TestConfig, now) ELSE tk.b
           r == TakeToken(TestConfig, b0, now)
       IN  tk' = [b |-> r.b, log |-> Append(tk.log, <<now, r.ret>>)]
    /\ UNCHANGED <<now, cbVars, sw, tb, reg, hk, moreVars>>

\* time.Sleep of one second.
TestSleep ==
    /\ now < MaxTestTime
    /\ now' = now + 1
    /\ UNCHANGED <<cbVars, sw, tb, extVars>>

NextTest == TestAllow \/ TestSleep

(***************************************************************************)
(* Registry (package registry).  Every operation runs under r.mutex and    *)
(* is one step.  The event channel is kept as the number of events it      *)
(* holds.  One tick is one unit of TTL.                                    *)
(***************************************************************************)

Names == {"a", "b"}

\* Bounds of the exploration: clock ticks, the largest TTL, and the events
\* left undelivered in the runs of RegistrySpec.
MaxTimeReg == 3
MaxTTL == 2
MaxQueued == 3

\* make(chan SpecEvent, 100)
EventCapacity == 100

SpecEventAdded == "spec.added"
SpecEventUpdated == "spec.updated"
SpecEventRemoved == "spec.removed"

\* The absent map entry, and Get's nil.
NoSpec == [serviceName |-> "", fetchedAt |-> -1, ttl |-> -1]

\* The entries a caller may pass to Add at time t for the services ns.
SpecInfos(ns, t) == [serviceName : ns, fetchedAt : 0..t, ttl : 0..MaxTTL]

\* ghost: the step just taken (operation, service, argument, result, the
\* event handed to emitEvent and whether the channel took it).
NoRegStep ==
    [op |-> "none", name |-> "", arg |-> NoSpec, ret |-> <<NoSpec, FALSE>>,
     ev |-> "none", queued |-> FALSE]

\* ghost: per service, the last change of its map entry.
NoHist == [op |-> "none", e |-> NoSpec]

\* cancelled: whether the ctx handed to StartCleanup is cancelled.
New ==
    [specs |-> [n \in Names |-> NoSpec], events |-> 0, tick |-> FALSE,
     cancelled |-> FALSE, last |-> NoRegStep, hist |-> [n \in Names |-> NoHist]]

\* An expiry test that never reports an entry stale.
IsExpiredNever(spec, t) == FALSE

\* Registry.isExpired at time t.
IsExpired(spec, t) ==
    IF spec.ttl <= 0 THEN FALSE ELSE t - spec.fetchedAt > spec.ttl

\* A channel without a bound.
EmitEventUnbounded(events) == events + 1

\* Registry.emitEvent: the non-blocking send; the channel's length after it.
EmitEvent(events) == IF events < EventCapacity THEN events + 1 ELSE events

\* An Add that reports every entry as new.
EventTypeAlwaysAdded(exists) == SpecEventAdded

\* Registry.Add: the type of the event.
EventType(exists) == IF exists THEN SpecEventUpdated ELSE SpecEventAdded

\* Registry.Add(specInfo)
RegAdd(e) ==
    /\ reg' = LET n == e.serviceName
                  exists == reg.specs[n] # NoSpec
              IN  [reg EXCEPT !.specs[n] = e,
                              !.events = EmitEvent(@),
                              !.hist[n] = [op |-> "add", e |-> e],
                              !.last = [NoRegStep EXCEPT !.op = "add", !.name = n, !.arg = e,
                                            !.ev = EventType(exists),
                                            !.queued = EmitEvent(reg.events) # reg.events]]
    /\ UNCHANGED <<now, cbVars, rlVars, hk, moreVars>>

\* Registry.Get(serviceName): the entry and whether it is fresh.
RegGet(n) ==
    /\ reg' = LET spec == reg.specs[n]
                  ret == IF spec = NoSpec THEN <<NoSpec, FALSE>>
                         ELSE IF IsExpired(spec, now) THEN <<spec, FALSE>>
                         ELSE <<spec, TRUE>>
              IN  [reg EXCEPT !.last = [NoRegStep EXCEPT !.op = "get", !.name = n,
                                                         !.ret = ret]]
    /\ UNCHANGED <<now, cbVars, rlVars, hk, moreVars>>

\* A delete that leaves the map as it is.
DeleteNothing(specs, n) == specs

\* delete(r.specs, serviceName)
Delete(specs, n) == [specs EXCEPT ![n] = NoSpec]

\* Registry.Remove(serviceName); ret[2] is the boolean it returns.
RegRemove(n) ==
    /\ IF reg.specs[n] = NoSpec
       THEN reg' = [reg EXCEPT !.last = [NoRegStep EXCEPT !.op = "remove", !.name = n]]
       ELSE reg' = [reg EXCEPT !.specs = Delete(@, n),
                               !.events = EmitEvent(@),
                               !.hist[n] = [op |-> "remove", e |-> NoSpec],
                               !.last = [NoRegStep EXCEPT !.op = "remove", !.name = n,
                                             !.ret = <<NoSpec, TRUE>>,
                                             !.ev = SpecEventRemoved,
                                             !.queued = EmitEvent(reg.events) # reg.events]]
    /\ UNCHANGED <<now, cbVars, rlVars, hk, moreVars>>

\* A janitor that evicts an entry as soon as it is expired.
ShouldEvictEager(spec, t) == IsExpired(spec, t)

\* Registry.cleanupExpired: whether the entry is deleted at time t.
ShouldEvict(spec, t) ==
    IsExpired(spec, t) /\ t - (spec.fetchedAt + spec.ttl) > spec.ttl

\* The channel's length after k calls of emitEvent.
RECURSIVE EmitEvents(_, _)
EmitEvents(events, k) == IF k = 0 THEN events ELSE EmitEvents(EmitEvent(events), k - 1)

\* Registry.StartCleanup(ctx, interval): the ticker is stopped when
\* StartCleanup returns (its deferred ticker.Stop), so the goroutine it
\* leaves behind finds at most the one tick that was buffered before the
\* stop, which takes an interval shorter than the call itself (early).
RegStartCleanup(early) ==
    /\ reg' = [reg EXCEPT !.tick = @ \/ early,
                          !.last = [NoRegStep EXCEPT !.op = "start"]]
    /\ UNCHANGED <<now, cbVars, rlVars, hk, moreVars>>

\* The janitor goroutine receives the buffered tick and runs
\* Registry.cleanupExpired: one removed event per deleted entry.
RegCleanup ==
    /\ reg.tick
    /\ LET gone == {n \in Names : reg.specs[n] # NoSpec /\ ShouldEvict(reg.specs[n], now)}
           events1 == EmitEvents(reg.events, Cardinality(gone))
       IN  reg' = [reg EXCEPT !.tick = FALSE,
                              !.specs = [n \in Names |-> IF n \in gone THEN NoSpec ELSE @[n]],
                              !.events = events1,
                              !.hist = [n \in Names |->
                                  IF n \in gone THEN [op |-> "evict", e |-> NoSpec] ELSE @[n]],
                              !.last = [NoRegStep EXCEPT !.op = "cleanup",
                                  !.ev = IF gone = {} THEN "none" ELSE SpecEventRemoved,
                                  !.queued = events1 = reg.events + Cardinality(gone)]]
    /\ UNCHANGED <<now, cbVars, rlVars, hk, moreVars>>

\* The owner of the ctx handed to StartCleanup cancels it.
RegCancel ==
    /\ ~reg.cancelled
    /\ reg' = [reg EXCEPT !.cancelled = TRUE, !.last = [NoRegStep EXCEPT !.op = "cancel"]]
    /\ UNCHANGED <<now, cbVars, rlVars, hk, moreVars>>

\* The janitor goroutine receives from ctx.Done() and returns; a buffered
\* tick is left unreceived.  When the tick is buffered too, the select may
\* as well take it first (RegCleanup).
RegJanitorReturn ==
    /\ reg.cancelled
    /\ reg' = [reg EXCEPT !.tick = FALSE, !.last = [NoRegStep EXCEPT !.op = "return"]]
    /\ UNCHANGED <<now, cbVars, rlVars, hk, moreVars>>

\* A reader of Events() receives one event.
RegReceive ==
    /\ reg.events > 0
    /\ reg' = [reg EXCEPT !.events = @ - 1, !.last = [NoRegStep EXCEPT !.op = "recv"]]
    /\ UNCHANGED <<now, cbVars, rlVars, hk, moreVars>>

TickReg ==
    /\ now < MaxTimeReg
    /\ now' = now + 1
    /\ UNCHANGED <<cbVars, rlVars, reg, hk, moreVars>>

\* Two services, with at most MaxQueued events left undelivered.
NextReg ==
    \/ \E e \in SpecInfos(Names, now) : RegAdd(e) /\ reg'.events <= MaxQueued
    \/ \E n \in Names : RegGet(n)
    \/ \E n \in Names : RegRemove(n) /\ reg'.events <= MaxQueued
    \/ \E early \in BOOLEAN : RegStartCleanup(early)
    \/ RegCleanup /\ reg'.events <= MaxQueued
    \/ RegReceive
    \/ TickReg

\* One service, with the channel filling up to its capacity.
NextRegFull ==
    \/ \E e \in SpecInfos({"a"}, now) : RegAdd(e)
    \/ RegGet("a")
    \/ RegRemove("a")
    \/ \E early \in BOOLEAN : RegStartCleanup(early)
    \/ RegCleanup
    \/ RegReceive
    \/ TickReg

\* One service, its janitor and the ctx of the janitor, with at most MaxQueued
\* events left undelivered.
NextJanitor ==
    \/ \E e \in SpecInfos({"a"}, now) : RegAdd(e) /\ reg'.events <= MaxQueued
    \/ RegRemove("a") /\ reg'.events <= MaxQueued
    \/ \E early \in BOOLEAN : RegStartCleanup(early)
    \/ RegCleanup /\ reg'.events <= MaxQueued
    \/ RegCancel
    \/ RegJanitorReturn
    \/ RegReceive
    \/ TickReg

(***************************************************************************)
(* Hooks (package hooks).  A hook is its registration number and its       *)
(* priority.  The Manager has no lock; hooks are registered while no phase *)
(* is running, and one call runs one phase at a time.                      *)
(***************************************************************************)

HookTypePreRequest == "pre-request"
HookTypePostResponse == "post-response"
HookTypeOnError == "on-error"
HookTypes == {HookTypePreRequest, HookTypePostResponse, HookTypeOnError}

\* PriorityLow, PriorityMedium, PriorityHigh
Priorities == {10, 50, 100}

\* Bound of the exploration: hooks registered in all.
MaxHooks == 3

\* The error a phase would return for a cancelled context, as a value of err.
ErrCancelled == -1

\* The call's phase: its type, the position of executeHooks, its local
\* slice hooks, the hooks executed so far, the returned error (the id of
\* the hook it names, 0 for nil) and whether the call's ctx is cancelled;
\* ghost: the ids of the hooks that failed.
IdlePhase ==
    [type |-> "none", pc |-> "idle", hooks |-> <<>>, log |-> <<>>, failed |-> {},
     err |-> 0, cancelled |-> FALSE]

NewManager == [hooks |-> [t \in HookTypes |-> <<>>], nreg |-> 0, ph |-> IdlePhase]

Swap(h, i, j) == [h EXCEPT ![i] = h[j], ![j] = h[i]]

\* A pass that also swaps neighbours of equal priority.
RECURSIVE BubblePassTies(_, _, _)
BubblePassTies(h, j, n) ==
    IF j > n THEN h
    ELSE BubblePassTies(IF h[j].priority <= h[j + 1].priority THEN Swap(h, j, j + 1) ELSE h,
                        j + 1, n)

RECURSIVE BubbleSortTies(_, _)
BubbleSortTies(h, i) ==
    IF i >= Len(h) - 1 THEN h
    ELSE BubbleSortTies(BubblePassTies(h, 1, Len(h) - i - 1), i + 1)

\* A sort that does not keep the order of equal priorities.
SortHooksUnstable(h) == BubbleSortTies(h, 0)

\* The inner loop of the bubble sort, from pair j to pair n.
RECURSIVE BubblePass(_, _, _)
BubblePass(h, j, n) ==
    IF j > n THEN h
    ELSE BubblePass(IF h[j].priority < h[j + 1].priority THEN Swap(h, j, j + 1) ELSE h,
                    j + 1, n)

\* The outer loop of the bubble sort, from pass i.
RECURSIVE BubbleSort(_, _)
BubbleSort(h, i) ==
    IF i >= Len(h) - 1 THEN h
    ELSE BubbleSort(BubblePass(h, 1, Len(h) - i - 1), i + 1)

\* Manager.sortHooksByPriority
SortHooksByPriority(h) == BubbleSort(h, 0)

\* Manager.RegisterHook(hook): append, then sort.
RegisterHook(t, p) ==
    /\ hk.nreg < MaxHooks
    /\ hk.ph.pc # "run"
    /\ hk' = [hk EXCEPT !.nreg = @ + 1,
                        !.hooks[t] = SortHooksByPriority(
                            Append(@, [id |-> hk.nreg + 1, priority |-> p]))]
    /\ UNCHANGED <<now, cbVars, rlVars, reg, moreVars>>

\* Manager.ExecutePreRequestHooks, ExecutePostResponseHooks and
\* ExecuteErrorHooks: executeHooks(hookType) begins.
ExecuteHooks(t) ==
    /\ hk.ph.pc # "run"
    /\ hk' = [hk EXCEPT !.ph = [IdlePhase EXCEPT !.type = t, !.pc = "run",
                                                !.hooks = hk.hooks[t]]]
    /\ UNCHANGED <<now, cbVars, rlVars, reg, moreVars>>

\* A loop that goes on after a failed hook.
ReturnsOnErrorNever(t, failed) == FALSE

\* executeHooks: whether the loop returns after a hook of type t that
\* failed or not.
ReturnsOnError(t, failed) == failed

\* executeHooks, one turn of the loop: the next hook executes and fails or
\* not.
HookExecute(failed) ==
    /\ hk.ph.pc = "run"
    /\ Len(hk.ph.log) < Len(hk.ph.hooks)
    /\ LET hook == hk.ph.hooks[Len(hk.ph.log) + 1]
       IN  hk' = [hk EXCEPT !.ph.log = Append(@, hook),
                           !.ph.failed = IF failed THEN @ \cup {hook.id} ELSE @,
                           !.ph.pc = IF ReturnsOnError(hk.ph.type, failed) THEN "done" ELSE @,
                           !.ph.err = IF ReturnsOnError(hk.ph.type, failed) THEN hook.id ELSE @]
    /\ UNCHANGED <<now, cbVars, rlVars, reg, moreVars>>

\* executeHooks: the loop is over, return nil.
HookReturn ==
    /\ hk.ph.pc = "run"
    /\ Len(hk.ph.log) = Len(hk.ph.hooks)
    /\ hk' = [hk EXCEPT !.ph.pc = "done"]
    /\ UNCHANGED <<now, cbVars, rlVars, reg, moreVars>>

\* The caller cancels the ctx it passed to the running phase; executeHooks
\* hands ctx to each hook and never reads it.
CancelCtx ==
    /\ hk.ph.pc = "run"
    /\ ~hk.ph.cancelled
    /\ hk' = [hk EXCEPT !.ph.cancelled = TRUE]
    /\ UNCHANGED <<now, cbVars, rlVars, reg, moreVars>>

NextHooks ==
    \/ \E t \in HookTypes, p \in Priorities : RegisterHook(t, p)
    \/ \E t \in HookTypes : ExecuteHooks(t)
    \/ \E failed \in BOOLEAN : HookExecute(failed)
    \/ HookReturn
    \/ CancelCtx

NextSW ==
    \/ \E q \in Procs, k \in Keys : SWLookup(q, k)
    \/ \E q \in Procs : SWCheck(q)
    \/ SWCleanup
    \/ \E k \in Keys : SWReset(k)
    \/ TickRL

NextTB ==
    \/ \E q \in Procs, k \in Keys : TBLookup(q, k)
    \/ \E q \in Procs : TBCheck(q)
    \/ TBCleanup
    \/ \E k \in Keys : TBReset(k)
    \/ TickRL

(***************************************************************************)
(* Strings.  A Go string is a sequence of one-character strings, so that   *)
(* formatting and parsing are computed character by character.             *)
(***************************************************************************)

DigitChars == <<"0", "1", "2", "3", "4", "5", "6", "7", "8", "9">>
Digits == {DigitChars[i] : i \in DOMAIN DigitChars}
\* The characters of the model in byte order.
CharOrder ==
    <<"+", "-", ".", "/">> \o DigitChars \o <<"a", "c", "i", "l", "r", "s", "t", "v", "x">>

Ord(c) == CHOOSE i \in DOMAIN CharOrder : CharOrder[i] = c

DigitVal(c) == CHOOSE d \in 0..9 : DigitChars[d + 1] = c

RECURSIVE DecVal(_)
DecVal(s) ==
    IF s = <<>> THEN 0
    ELSE DecVal(SubSeq(s, 1, Len(s) - 1)) * 10 + DigitVal(s[Len(s)])

\* strconv.Atoi: an optional sign, then one or more decimal digits.
Atoi(s) ==
    LET signed == s # <<>> /\ Head(s) \in {"+", "-"}
        body == IF signed THEN Tail(s) ELSE s
    IN  IF body = <<>> \/ \E i \in DOMAIN body : body[i] \notin Digits
        THEN [ok |-> FALSE, n |-> 0]
        ELSE [ok |-> TRUE,
              n |-> IF signed /\ Head(s) = "-" THEN 0 - DecVal(body) ELSE DecVal(body)]

\* fmt's %d verb.
RECURSIVE Itoa(_)
Itoa(n) ==
    IF n < 0 THEN <<"-">> \o Itoa(0 - n)
    ELSE IF n < 10 THEN <<DigitChars[n + 1]>>
    ELSE Itoa(n \div 10) \o <<DigitChars[(n % 10) + 1]>>

\* strings.Split with a one-character separator.
RECURSIVE Split(_, _)
Split(s, sep) ==
    IF \A i \in DOMAIN s : s[i] # sep THEN <<s>>
    ELSE LET i == CHOOSE k \in DOMAIN s :
                      s[k] = sep /\ \A j \in 1..(k - 1) : s[j] # sep
         IN  <<SubSeq(s, 1, i - 1)>> \o Split(SubSeq(s, i + 1, Len(s)), sep)

\* strings.TrimPrefix with a one-character prefix.
TrimPrefix(s, c) == IF s # <<>> /\ Head(s) = c THEN Tail(s) ELSE s

LowerLetters ==
    <<"a", "b", "c", "d", "e", "f", "g", "h", "i", "j", "k", "l", "m",
      "n", "o", "p", "q", "r", "s", "t", "u", "v", "w", "x", "y", "z">>
UpperLetters ==
    <<"A", "B", "C", "D", "E", "F", "G", "H", "I", "J", "K", "L", "M",
      "N", "O", "P", "Q", "R", "S", "T", "U", "V", "W", "X", "Y", "Z">>

IsLower(c) == \E i \in DOMAIN LowerLetters : LowerLetters[i] = c
IsUpper(c) == \E i \in DOMAIN UpperLetters : UpperLetters[i] = c

\* unicode.ToLower and unicode.ToUpper of one character.
LowerChar(c) ==
    IF IsUpper(c) THEN LowerLetters[CHOOSE i \in DOMAIN UpperLetters : UpperLetters[i] = c]
    ELSE c
UpperChar(c) ==
    IF IsLower(c) THEN UpperLetters[CHOOSE i \in DOMAIN LowerLetters : LowerLetters[i] = c]
    ELSE c

\* strings.ToLower
ToLower(s) == [i \in DOMAIN s |-> LowerChar(s[i])]

\* The characters inside a word for strings.Title: letters, digits, underscore.
IsWordChar(c) == IsLower(c) \/ IsUpper(c) \/ c \in Digits \/ c = "_"

\* strings.Title: the first letter of every word in upper case.
Title(s) ==
    [i \in DOMAIN s |-> IF i = 1 \/ ~IsWordChar(s[i - 1]) THEN UpperChar(s[i]) ELSE s[i]]

\* strings.Trim(s, cutset): s without its leading and trailing characters
\* that are in cutset.
RECURSIVE Trim(_, _)
Trim(s, cutset) ==
    IF s = <<>> THEN s
    ELSE IF Head(s) \in cutset THEN Trim(Tail(s), cutset)
    ELSE IF s[Len(s)] \in cutset THEN Trim(SubSeq(s, 1, Len(s) - 1), cutset)
    ELSE s

\* strings.Join(parts, "")
RECURSIVE Join(_)
Join(parts) == IF parts = <<>> THEN <<>> ELSE Head(parts) \o Join(Tail(parts))

\* strings.Compare: the lexicographic order of the bytes.
RECURSIVE StringsCompare(_, _)
StringsCompare(a, b) ==
    IF a = <<>> /\ b = <<>> THEN 0
    ELSE IF a = <<>> THEN 0 - 1
    ELSE IF b = <<>> THEN 1
    ELSE IF Head(a) # Head(b) THEN (IF Ord(Head(a)) < Ord(Head(b)) THEN 0 - 1 ELSE 1)
    ELSE StringsCompare(Tail(a), Tail(b))

(***************************************************************************)
(* Versioning: model (the package versioning part of auth_test.go)         *)
(***************************************************************************)

Services == {"users"}
\* A service holds at most MaxVersions versions.
MaxVersions == 2

VersioningStrategyPath == "path"

Version(major, minor, patch, label) ==
    [Major |-> major, Minor |-> minor, Patch |-> patch, Label |-> label]

\* The versions that get registered and requested.
VMVersions ==
    {Version(ma, mi, pa, la) :
        ma \in {1, 2}, mi \in {0, 1, 2}, pa \in {0, 5}, la \in {<<>>, <<"r", "c">>}}

\* The request paths: /v1/list, /v2/list, /v1.1/list, /v1, /v1./list, /v1x, /list.
RequestPaths ==
    { <<"/", "v", "1", "/", "l", "i", "s", "t">>,
      <<"/", "v", "2", "/", "l", "i", "s", "t">>,
      <<"/", "v", "1", ".", "1", "/", "l", "i", "s", "t">>,
      <<"/", "v", "1">>,
      <<"/", "v", "1", ".", "/", "l", "i", "s", "t">>,
      <<"/", "v", "1", "x">>,
      <<"/", "l", "i", "s", "t">> }

\* Version.String
String(v) ==
    Itoa(v.Major) \o <<".">> \o Itoa(v.Minor) \o <<".">> \o Itoa(v.Patch)
        \o (IF v.Label # <<>> THEN <<"-">> \o v.Label ELSE <<>>)

\* Version.Compare
Compare(v, other) ==
    IF v.Major # other.Major THEN (IF v.Major < other.Major THEN 0 - 1 ELSE 1)
    ELSE IF v.Minor # other.Minor THEN (IF v.Minor < other.Minor THEN 0 - 1 ELSE 1)
    ELSE IF v.Patch # other.Patch THEN (IF v.Patch < other.Patch THEN 0 - 1 ELSE 1)
    ELSE StringsCompare(v.Label, other.Label)

\* Version.IsCompatible
IsCompatible(v, other) ==
    IF v.Major # other.Major THEN FALSE ELSE v.Minor >= other.Minor

NoVersion == Version(0 - 1, 0 - 1, 0 - 1, <<>>)
\* What a lookup returns: the version of the spec it found, or an error.
Found(v) == [ok |-> TRUE, version |-> v]
NotFound == [ok |-> FALSE, version |-> NoVersion]

\* The greatest element of a non-empty set of versions, as the loops over the
\* map find it: the order is total, so the iteration order does not matter.
Greatest(vs) == CHOOSE v \in vs : \A w \in vs : Compare(w, v) <= 0

NoResolution == [op |-> "none", service |-> "", req |-> NoVersion, path |-> <<>>, res |-> NotFound]

NewVersionManager(strategy) ==
    [specs |-> <<>>, strategy |-> strategy, last |-> NoResolution]

\* GetLatestVersion
GetLatestVersion(specs, s) ==
    IF s \notin DOMAIN specs THEN NotFound
    ELSE Found(Greatest(specs[s]))

GetCompatibleVersionNoExact(specs, s, requested) ==
    IF s \notin DOMAIN specs THEN NotFound
    ELSE LET compatible == {v \in specs[s] : IsCompatible(v, requested)}
         IN  IF compatible = {} THEN NotFound ELSE Found(Greatest(compatible))

\* GetCompatibleVersion
GetCompatibleVersion(specs, s, requested) ==
    IF s \notin DOMAIN specs THEN NotFound
    ELSE IF requested \in specs[s] THEN Found(requested)
    ELSE LET compatible == {v \in specs[s] : IsCompatible(v, requested)}
         IN  IF compatible = {} THEN NotFound ELSE Found(Greatest(compatible))

\* The length of the run of digits of s that starts at position i.
RECURSIVE DigitRun(_, _)
DigitRun(s, i) ==
    IF i <= Len(s) /\ s[i] \in Digits THEN 1 + DigitRun(s, i + 1) ELSE 0

\* FindStringSubmatch of ^/v(\d+)(?:\.(\d+))?(?:/|$) : the two groups of the
\* match, the second one empty when the path names no minor version.
PathVersionRegex(path) ==
    LET n1 == DigitRun(path, 3)
        e1 == 3 + n1
        n2 == DigitRun(path, e1 + 1)
        e2 == e1 + 1 + n2
        ends(i) == i > Len(path) \/ path[i] = "/"
        none == [matched |-> FALSE, major |-> <<>>, minor |-> <<>>]
    IN  IF Len(path) < 3 \/ path[1] # "/" \/ path[2] # "v" \/ n1 = 0 THEN none
        ELSE IF e1 <= Len(path) /\ path[e1] = "." /\ n2 > 0 /\ ends(e2)
        THEN [matched |-> TRUE, major |-> SubSeq(path, 3, e1 - 1),
              minor |-> SubSeq(path, e1 + 1, e2 - 1)]
        ELSE IF ends(e1)
        THEN [matched |-> TRUE, major |-> SubSeq(path, 3, e1 - 1), minor |-> <<>>]
        ELSE none

resolveVersionFromPathLatest(specs, s, path) == GetLatestVersion(specs, s)

\* resolveVersionFromPath
resolveVersionFromPath(specs, s, path) ==
    LET matches == PathVersionRegex(path)
        major == Atoi(matches.major)
        minor == IF matches.minor # <<>> THEN Atoi(matches.minor).n ELSE 0
    IN  IF ~matches.matched THEN GetLatestVersion(specs, s)
        ELSE IF ~major.ok THEN GetLatestVersion(specs, s)
        ELSE GetCompatibleVersion(specs, s, Version(major.n, minor, 0, <<>>))

\* AddVersion
AddVersion(s, v) ==
    /\ s \in DOMAIN vm.specs => v \in vm.specs[s] \/ Cardinality(vm.specs[s]) < MaxVersions
    /\ vm' = [vm EXCEPT
                !.specs = [t \in DOMAIN vm.specs \cup {s} |->
                              IF t = s
                              THEN (IF s \in DOMAIN vm.specs THEN vm.specs[s] ELSE {}) \cup {v}
                              ELSE vm.specs[t]],
                !.last = [NoResolution EXCEPT !.op = "add", !.service = s, !.req = v]]
    /\ UNCHANGED <<now, cbVars, rlVars, reg, hk, pv, ps, lk, srv, lateVars>>

\* A caller asks for an explicit version of a service.
ResolveExplicit(s, v) ==
    /\ vm' = [vm EXCEPT
                !.last = [NoResolution EXCEPT
                            !.op = "explicit", !.service = s, !.req = v,
                            !.res = GetCompatibleVersion(vm.specs, s, v)]]
    /\ UNCHANGED <<now, cbVars, rlVars, reg, hk, pv, ps, lk, srv, lateVars>>

\* ResolveVersionFromRequest of a manager built with the path strategy.
ResolveVersionFromRequest(s, path) ==
    /\ vm.strategy = VersioningStrategyPath
    /\ vm' = [vm EXCEPT
                !.last = [NoResolution EXCEPT
                            !.op = "path", !.service = s, !.path = path,
                            !.res = resolveVersionFromPath(vm.specs, s, path)]]
    /\ UNCHANGED <<now, cbVars, rlVars, reg, hk, pv, ps, lk, srv, lateVars>>

NextVM ==
    \/ \E s \in Services, v \in VMVersions : AddVersion(s, v)
    \/ \E s \in Services, v \in VMVersions : ResolveExplicit(s, v)
    \/ \E s \in Services, path \in RequestPaths : ResolveVersionFromRequest(s, path)

(***************************************************************************)
(* Versioning: ParseVersion and Version.String                             *)
(***************************************************************************)

\* The versions that are formatted and parsed back: one- to three-digit
\* numbers, no label, a plain label, a dotted label and a hyphenated label.
PVVersions ==
    {Version(ma, mi, pa, la) :
        ma \in {0, 1, 12}, mi \in {0, 3, 10}, pa \in {0, 7, 105},
        la \in {<<>>, <<"r", "c">>, <<"r", "c", ".", "1">>, <<"r", "c", "-", "1">>}}

\* The strings of TestParseVersion: 1.2.3, v2.0.0, 1.0.0-rc, 3, xx; and +1.2.
VersionStrings ==
    { <<"1", ".", "2", ".", "3">>,
      <<"v", "2", ".", "0", ".", "0">>,
      <<"1", ".", "0", ".", "0", "-", "r", "c">>,
      <<"3">>,
      <<"x", "x">>,
      <<"+", "1", ".", "2">> }

Parsed(v) == [ok |-> TRUE, version |-> v]
ParseError == [ok |-> FALSE, version |-> NoVersion]

\* ParseVersion
ParseVersion(versionStr) ==
    LET str == TrimPrefix(versionStr, "v")
        parts == Split(str, "-")
        versionPart == parts[1]
        label == IF Len(parts) > 1 THEN parts[2] ELSE <<>>
        versionNumbers == Split(versionPart, ".")
        major == Atoi(versionNumbers[1])
        minor == IF Len(versionNumbers) > 1 THEN Atoi(versionNumbers[2])
                 ELSE [ok |-> TRUE, n |-> 0]
        patch == IF Len(versionNumbers) > 2 THEN Atoi(versionNumbers[3])
                 ELSE [ok |-> TRUE, n |-> 0]
    IN  IF Len(versionNumbers) = 0 THEN ParseError
        ELSE IF ~major.ok THEN ParseError
        ELSE IF ~minor.ok THEN ParseError
        ELSE IF ~patch.ok THEN ParseError
        ELSE Parsed(Version(major.n, minor.n, patch.n, label))

\* Nothing formatted or parsed yet.
NoParse == [op |-> "none", v |-> NoVersion, str |-> <<>>, res |-> ParseError]

\* A caller formats a version and parses the string back.
FormatAndParse(v) ==
    /\ pv' = [op |-> "roundtrip", v |-> v, str |-> String(v),
              res |-> ParseVersion(String(v))]
    /\ UNCHANGED <<now, cbVars, rlVars, reg, hk, vm, ps, lk, srv, lateVars>>

\* A caller parses a string.
Parse(str) ==
    /\ pv' = [op |-> "parse", v |-> NoVersion, str |-> str, res |-> ParseVersion(str)]
    /\ UNCHANGED <<now, cbVars, rlVars, reg, hk, vm, ps, lk, srv, lateVars>>

NextPV ==
    \/ \E v \in PVVersions : FormatAndParse(v)
    \/ \E str \in VersionStrings : Parse(str)

(***************************************************************************)
(* Parser: model (package parser of fetcher.go)                            *)
(***************************************************************************)

PathNames == {"/a", "/{a}"}
\* The characters of the paths and of the methods.
Chars ==
    [s \in PathNames \cup {"GET", "POST", "PUT", "DELETE", "PATCH", "HEAD", "OPTIONS"} |->
        CASE s = "/a" -> <<"/", "a">>
          [] s = "/{a}" -> <<"/", "{", "a", "}">>
          [] s = "GET" -> <<"G", "E", "T">>
          [] s = "POST" -> <<"P", "O", "S", "T">>
          [] s = "PUT" -> <<"P", "U", "T">>
          [] s = "DELETE" -> <<"D", "E", "L", "E", "T", "E">>
          [] s = "PATCH" -> <<"P", "A", "T", "C", "H">>
          [] s = "HEAD" -> <<"H", "E", "A", "D">>
          [] s = "OPTIONS" -> <<"O", "P", "T", "I", "O", "N", "S">>]
\* The operationId that the operation of a document with one operation
\* declares: none, or listA.  The operations of the other documents declare none.
OperationIDs == {<<>>, <<"l", "i", "s", "t", "A">>}
\* The methods under which the documents of the model define operations.
DocMethods == {"GET", "POST", "TRACE"}
\* A document defines at most MaxOps operations.
MaxOps == 2
\* A parameter reference whose Value is nil.
NilParam == [Name |-> "", In |-> "", Required |-> FALSE]
\* openapi3.Parameter values: q in the query, optional or required, and id in the path.
ParamQ == [Name |-> "q", In |-> "query", Required |-> FALSE]
ParamQRequired == [Name |-> "q", In |-> "query", Required |-> TRUE]
ParamId == [Name |-> "id", In |-> "path", Required |-> TRUE]

\* openapi3.Parameters: the lists of parameter references of the documents.
ParamLists ==
    { <<>>, <<ParamQ>>, <<ParamQRequired>>, <<ParamId, ParamQ>>, <<NilParam, ParamQRequired>> }

\* spec.Paths of a document without paths.
NilPaths == [nil |-> TRUE]

\* The openapi3.T that defines the operations defs (pairs of path and method),
\* every path item with the parameters pathParams and every operation with the
\* parameters opParams.
Doc(defs, pathParams, opParams, operationID) ==
    [Paths |->
        [path \in {d[1] : d \in defs} |->
            [Parameters |-> pathParams,
             ops |-> [method \in {d[2] : d \in {e \in defs : e[1] = path}} |->
                         [Parameters |-> opParams, OperationID |-> operationID]]]]]

Docs ==
    { Doc(defs, pp, op, <<>>) :
        defs \in {d \in SUBSET (PathNames \X DocMethods) : Cardinality(d) <= MaxOps},
        pp \in ParamLists, op \in ParamLists }
    \cup { Doc({d}, <<>>, <<>>, id) : d \in PathNames \X DocMethods, id \in OperationIDs }
    \cup {[Paths |-> NilPaths]}

\* The keys of the operations map that parsePath builds.
ParsedMethods == {"GET", "POST", "PUT", "DELETE", "PATCH", "HEAD", "OPTIONS"}

\* The orders in which a range statement may visit the keys S of a map.
RangeOrders(S) ==
    {o \in [1..Cardinality(S) -> S] : \A i, j \in 1..Cardinality(S) : i # j => o[i] # o[j]}

\* parseParameter
parseParameter(param) ==
    [Name |-> param.Name, In |-> param.In, Required |-> param.Required]

\* The loop of parseOperation over allParams: a reference without Value is skipped.
RECURSIVE ParseParameters(_)
ParseParameters(allParams) ==
    IF allParams = <<>> THEN <<>>
    ELSE IF Head(allParams) = NilParam THEN ParseParameters(Tail(allParams))
    ELSE <<parseParameter(Head(allParams))>> \o ParseParameters(Tail(allParams))

\* The parts of the path that generateOperationID keeps: each part without
\* its braces, the first in lower case, the later ones titled; empty parts
\* are left out.
RECURSIVE CleanParts(_, _)
CleanParts(parts, done) ==
    IF parts = <<>> THEN done
    ELSE LET clean == Trim(Head(parts), {"{", "}"})
         IN  CleanParts(Tail(parts),
                 IF Len(clean) > 0
                 THEN Append(done, IF Len(done) = 0 THEN ToLower(clean) ELSE Title(clean))
                 ELSE done)

\* generateOperationID: the method in lower case, then the titled path.
generateOperationID(method, path) ==
    LET parts == Split(Trim(path, {"/"}), "/")
        cleanParts == CleanParts(parts, <<>>)
    IN  IF Len(cleanParts) > 0 THEN ToLower(method) \o Title(Join(cleanParts))
        ELSE ToLower(method)

\* parseOperation
parseOperation(path, method, operation, pathParams) ==
    [Path |-> path, Method |-> method,
     OperationID |-> IF operation.OperationID = <<>>
                     THEN generateOperationID(Chars[method], Chars[path])
                     ELSE operation.OperationID,
     Parameters |-> ParseParameters(pathParams \o operation.Parameters)]

\* parsePath: the routes it appends, for every order in which the range over
\* the operations map may visit the entries that are not nil.
parsePath(path, pathItem) ==
    LET defined == {method \in ParsedMethods : method \in DOMAIN pathItem.ops}
    IN  { [i \in 1..Len(o) |-> parseOperation(path, o[i], pathItem.ops[o[i]],
                                              pathItem.Parameters)] :
            o \in RangeOrders(defined) }

\* The loop of ParseSpec over the paths that are left: the routes it appends,
\* for every order in which the range over spec.Paths.Map() may visit them.
RECURSIVE ParsePaths(_, _)
ParsePaths(paths, left) ==
    IF left = {} THEN {<<>>}
    ELSE UNION { { first \o rest : first \in parsePath(path, paths[path]),
                                   rest \in ParsePaths(paths, left \ {path}) } :
                 path \in left }

\* Parser.New; ghost: the document of the last ParseSpec, whether the ParseSpec
\* before it had the same document, and the routes of that one.
NewParser ==
    [routes |-> <<>>, spec |-> [Paths |-> NilPaths], err |-> FALSE,
     parsed |-> FALSE, again |-> FALSE, prev |-> <<>>]

\* ParseSpec
ParseSpec(spec) ==
    /\ \E routes \in (IF spec.Paths = NilPaths THEN {<<>>}
                      ELSE ParsePaths(spec.Paths, DOMAIN spec.Paths)) :
           ps' = [routes |-> routes, spec |-> spec, err |-> spec.Paths = NilPaths,
                  parsed |-> TRUE,
                  again |-> ps.parsed /\ ps.spec = spec,
                  prev |-> IF ps.parsed /\ ps.spec = spec THEN ps.routes ELSE <<>>]
    /\ UNCHANGED <<now, cbVars, rlVars, reg, hk, vm, pv, lk, srv, lateVars>>

NextPS == \E spec \in Docs : ParseSpec(spec)

(***************************************************************************)
(* Registry: the mutex (registry.go, the locking of every method)          *)
(***************************************************************************)

\* The goroutines that call the registry, the janitor among them.
NumRegProcs == 3
RegProcs == 1..NumRegProcs

\* The methods that lock r.mutex, by the lock they take first.
ReadOps == {"Get", "List", "GetExpired", "Stats"}
WriteOps == {"Add", "Remove", "cleanupExpired"}

\* sync.RWMutex: w is the goroutine that has announced or holds the write lock
\* (0: none), readers the number of read locks held, writing whether w holds
\* the lock.  RLock blocks while a writer has announced itself.
NewRWMutex == [w |-> 0, readers |-> 0, writing |-> FALSE]

NewLocks ==
    [mutex |-> NewRWMutex, p |-> [q \in RegProcs |-> [op |-> "none", pc |-> "idle"]]]

\* A goroutine calls a method of the registry; the method's first statement
\* is r.mutex.RLock() or r.mutex.Lock().
CallReg(q, op) ==
    /\ lk.p[q].pc = "idle"
    /\ lk' = [lk EXCEPT !.p[q] = [op |-> op,
                                  pc |-> IF op \in ReadOps THEN "RLock" ELSE "Lock"]]
    /\ UNCHANGED <<now, cbVars, rlVars, reg, hk, vm, pv, ps, srv, lateVars>>

\* RWMutex.RLock, when it does not block.
RLock(mutex) == [mutex EXCEPT !.readers = @ + 1]

\* RWMutex.RUnlock
RUnlock(mutex) == [mutex EXCEPT !.readers = @ - 1]

\* Get, List, GetExpired, Stats: r.mutex.RLock() returns.
RegRLock(q) ==
    /\ lk.p[q].pc = "RLock"
    /\ lk.mutex.w = 0
    /\ lk' = [lk EXCEPT !.mutex = RLock(@),
                        !.p[q].pc = IF lk.p[q].op = "Stats" THEN "Stats" ELSE "reading"]
    /\ UNCHANGED <<now, cbVars, rlVars, reg, hk, vm, pv, ps, srv, lateVars>>

\* Stats, holding the read lock, calls r.GetExpired(): its r.mutex.RLock() returns.
StatsGetExpired(q) ==
    /\ lk.p[q].pc = "Stats"
    /\ lk.mutex.w = 0
    /\ lk' = [lk EXCEPT !.mutex = RLock(@), !.p[q].pc = "GetExpired"]
    /\ UNCHANGED <<now, cbVars, rlVars, reg, hk, vm, pv, ps, srv, lateVars>>

\* The GetExpired that Stats called returns: its deferred RUnlock.
StatsGetExpiredReturn(q) ==
    /\ lk.p[q].pc = "GetExpired"
    /\ lk' = [lk EXCEPT !.mutex = RUnlock(@), !.p[q].pc = "reading"]
    /\ UNCHANGED <<now, cbVars, rlVars, reg, hk, vm, pv, ps, srv, lateVars>>

\* Get, List, GetExpired, Stats return: the deferred r.mutex.RUnlock().
RegRUnlock(q) ==
    /\ lk.p[q].pc = "reading"
    /\ lk' = [lk EXCEPT !.mutex = RUnlock(@), !.p[q] = [op |-> "none", pc |-> "idle"]]
    /\ UNCHANGED <<now, cbVars, rlVars, reg, hk, vm, pv, ps, srv, lateVars>>

\* Add, Remove, cleanupExpired: r.mutex.Lock() announces the writer.
RegLock(q) ==
    /\ lk.p[q].pc = "Lock"
    /\ lk.mutex.w = 0
    /\ lk' = [lk EXCEPT !.mutex.w = q, !.p[q].pc = "pending"]
    /\ UNCHANGED <<now, cbVars, rlVars, reg, hk, vm, pv, ps, srv, lateVars>>

\* r.mutex.Lock() returns once the readers have left.
RegLockAcquire(q) ==
    /\ lk.p[q].pc = "pending"
    /\ lk.mutex.readers = 0
    /\ lk' = [lk EXCEPT !.mutex.writing = TRUE, !.p[q].pc = "writing"]
    /\ UNCHANGED <<now, cbVars, rlVars, reg, hk, vm, pv, ps, srv, lateVars>>

\* Add, Remove, cleanupExpired return: the deferred r.mutex.Unlock().
RegUnlock(q) ==
    /\ lk.p[q].pc = "writing"
    /\ lk' = [lk EXCEPT !.mutex = NewRWMutex, !.p[q] = [op |-> "none", pc |-> "idle"]]
    /\ UNCHANGED <<now, cbVars, rlVars, reg, hk, vm, pv, ps, srv, lateVars>>

\* The steps of goroutine q inside a method of the registry.
RegProcStep(q) ==
    \/ RegRLock(q)
    \/ StatsGetExpired(q)
    \/ StatsGetExpiredReturn(q)
    \/ RegRUnlock(q)
    \/ RegLock(q)
    \/ RegLockAcquire(q)
    \/ RegUnlock(q)

NextLK ==
    \/ \E q \in RegProcs, op \in ReadOps \cup WriteOps : CallReg(q, op)
    \/ \E q \in RegProcs : RegRLock(q)
    \/ \E q \in RegProcs : StatsGetExpired(q)
    \/ \E q \in RegProcs : StatsGetExpiredReturn(q)
    \/ \E q \in RegProcs : RegRUnlock(q)
    \/ \E q \in RegProcs : RegLock(q)
    \/ \E q \in RegProcs : RegLockAcquire(q)
    \/ \E q \in RegProcs : RegUnlock(q)

(***************************************************************************)
(* MCP server: the auth-policy tools (package mcp, server.go).  A          *)
(* *SpecInfo is a reference to a heap object; the registry's map and the   *)
(* callers of Get hold references.  The entries of this part have no TTL.  *)
(***************************************************************************)

\* The serviceName arguments: a service, and the missing argument.
ServiceNames == {"a", ""}
\* The authType arguments: the three valid ones, an invalid one, the missing one.
AuthTypeStrs == {"basic", "bearer", "oauth2", "digest", ""}
\* AddSpec is called at most MaxEntries times.
MaxEntries == 2

\* A nil *SpecInfo and a nil *AuthPolicy.
NilSpecInfo == 0
NilAuthPolicy == "nil"

AuthTypeBasic == "basic"
AuthTypeBearer == "bearer"
AuthTypeOAuth2 == "oauth2"

\* The SpecInfo that FetchSpec returns.
FetchSpec(serviceName) == [ServiceName |-> serviceName, AuthPolicy |-> NilAuthPolicy]

IdleHandler == [pc |-> "idle", tool |-> "none", spec |-> NilSpecInfo,
                authPolicy |-> NilAuthPolicy, result |-> "none"]

\* heap: the SpecInfo objects; specs: the registry's map; events: the length
\* of the registry's event channel, which nobody reads here; h: the running
\* auth-policy tool call; held: the reference a reader got from Get or List;
\* ghost seen: the value the reader found behind it then.
NewServer ==
    [heap |-> <<>>, specs |-> [n \in ServiceNames \ {""} |-> NilSpecInfo],
     events |-> 0, h |-> IdleHandler, held |-> NilSpecInfo, seen |-> FetchSpec("")]

\* Server.AddSpec: FetchSpec builds a new SpecInfo and registry.Add inserts it.
AddSpec(serviceName) ==
    /\ Len(srv.heap) < MaxEntries
    /\ srv' = [srv EXCEPT !.heap = Append(@, FetchSpec(serviceName)),
                          !.specs[serviceName] = Len(srv.heap) + 1,
                          !.events = EmitEvent(@)]
    /\ UNCHANGED <<now, cbVars, rlVars, reg, hk, vm, pv, ps, lk, lateVars>>

\* A reader calls registry.Get or registry.List and keeps the entry.
ReaderGet(serviceName) ==
    /\ srv.specs[serviceName] # NilSpecInfo
    /\ srv' = [srv EXCEPT !.held = srv.specs[serviceName],
                          !.seen = srv.heap[srv.specs[serviceName]]]
    /\ UNCHANGED <<now, cbVars, rlVars, reg, hk, vm, pv, ps, lk, lateVars>>

\* handleEnableAuthPolicy, up to the return of registry.Get.
handleEnableAuthPolicy(serviceName, authTypeStr) ==
    /\ srv.h.pc = "idle"
    /\ srv' = [srv EXCEPT !.h =
          IF serviceName = "" THEN [IdleHandler EXCEPT !.result = "serviceName is required"]
          ELSE IF authTypeStr = "" THEN [IdleHandler EXCEPT !.result = "authType is required"]
          ELSE IF authTypeStr \notin {AuthTypeBasic, AuthTypeBearer, AuthTypeOAuth2}
          THEN [IdleHandler EXCEPT !.result = "Invalid authType"]
          ELSE IF srv.specs[serviceName] = NilSpecInfo
          THEN [IdleHandler EXCEPT !.result = "not found"]
          ELSE [pc |-> "set", tool |-> "enableAuthPolicy", spec |-> srv.specs[serviceName],
                authPolicy |-> authTypeStr, result |-> "none"]]
    /\ UNCHANGED <<now, cbVars, rlVars, reg, hk, vm, pv, ps, lk, lateVars>>

\* handleDisableAuthPolicy, up to the return of registry.Get.
handleDisableAuthPolicy(serviceName) ==
    /\ srv.h.pc = "idle"
    /\ srv' = [srv EXCEPT !.h =
          IF serviceName = "" THEN [IdleHandler EXCEPT !.result = "serviceName is required"]
          ELSE IF srv.specs[serviceName] = NilSpecInfo
          THEN [IdleHandler EXCEPT !.result = "not found"]
          ELSE [pc |-> "set", tool |-> "disableAuthPolicy", spec |-> srv.specs[serviceName],
                authPolicy |-> NilAuthPolicy, result |-> "none"]]
    /\ UNCHANGED <<now, cbVars, rlVars, reg, hk, vm, pv, ps, lk, lateVars>>

\* spec.AuthPolicy = authPolicy, and spec.AuthPolicy = nil: the handler
\* writes the field of the object that Get returned, outside the mutex.
SetAuthPolicy ==
    /\ srv.h.pc = "set"
    /\ srv' = [srv EXCEPT !.heap[srv.h.spec].AuthPolicy = srv.h.authPolicy,
                          !.h.pc = "add"]
    /\ UNCHANGED <<now, cbVars, rlVars, reg, hk, vm, pv, ps, lk, lateVars>>

\* s.registry.Add(spec) with the reference that Get returned, and the result.
AddAuthPolicy ==
    /\ srv.h.pc = "add"
    /\ srv' = [srv EXCEPT !.specs[srv.heap[srv.h.spec].ServiceName] = srv.h.spec,
                          !.events = EmitEvent(@),
                          !.h = [IdleHandler EXCEPT !.result = "success"]]
    /\ UNCHANGED <<now, cbVars, rlVars, reg, hk, vm, pv, ps, lk, lateVars>>

NextSrv ==
    \/ \E n \in ServiceNames \ {""} : AddSpec(n)
    \/ \E n \in ServiceNames \ {""} : ReaderGet(n)
    \/ \E n \in ServiceNames, t \in AuthTypeStrs : handleEnableAuthPolicy(n, t)
    \/ \E n \in ServiceNames : handleDisableAuthPolicy(n)
    \/ SetAuthPolicy
    \/ AddAuthPolicy

(***************************************************************************)
(* Rate limiters: properties                                               *)
(***************************************************************************)

\* The number of admissions logged in adm at times from lo to hi.
Admitted(adm, lo, hi) == Cardinality({i \in DOMAIN adm : adm[i] >= lo /\ adm[i] <= hi})

\* C9: for every key, in runs of Allow calls (no Reset), the admissions of the
\* sliding-window limiter in any window of SWWindowSize ticks (the ticks
\* t - SWWindowSize + 1 .. t) number at most SWRequestsPerMinute.
C9_SlidingWindowBound ==
    sw.nreset = 0 =>
        \A k \in Keys, t \in 0..MaxTimeRL :
            Admitted(sw.adm[k], t - SWWindowSize + 1, t) <= SWRequestsPerMinute

\* C10: for every key, in runs of Allow calls (no Reset), the admissions of
\* the token-bucket limiter in any interval from s to e number at most
\* burstSize + (e - s) * refillRate, rounded down.
C10_TokenBucketBound ==
    tb.nreset = 0 =>
        \A k \in Keys, s \in 0..MaxTimeRL, e \in 0..MaxTimeRL :
            s <= e => Admitted(tb.adm[k], s, e)
                        <= TBBurstSize + ((e - s) * TBRequestsPerMinute) \div TBWindowSize

\* C11: every token bucket, in the map or already dropped from it, holds at
\* every moment between zero and burstSize tokens, and no step moves a
\* bucket's lastRefill backwards.
C11_TokensBoundedRefillMonotone ==
    [][/\ \A i \in DOMAIN tb'.obj :
             tb'.obj[i].tokens >= 0 /\ tb'.obj[i].tokens <= Capacity
       /\ \A i \in DOMAIN tb.obj :
             tb'.obj[i].lastRefill >= tb.obj[i].lastRefill]_vars

\* C11 witness: a key's bucket was emptied by a burst at time 0, refilled
\* later and emptied again by the admission of that later time.
C11_Witness ==
    \E k \in Keys :
        /\ tb.nreset = 0 /\ tb.buckets[k] # 0
        /\ tb.obj[tb.buckets[k]].tokens = 0
        /\ tb.obj[tb.buckets[k]].lastRefill > 0
        /\ Admitted(tb.adm[k], 0, 0) = TBBurstSize
        /\ Admitted(tb.adm[k], 1, MaxTimeRL) = 1

\* C12: with 60 requests per minute, a one-minute window and a burst of 10,
\* the first ten calls made at the moment of the key's first call are all
\* admitted, an eleventh call at that moment is denied with a retryAfter of
\* one second, and a twelfth call two seconds later is admitted and leaves
\* one token in the bucket.
C12_BurstThenRefill ==
    Len(tk.log) > 0 =>
        LET t0 == tk.log[1][1]
        IN  /\ \A i \in 1..Len(tk.log) :
                  (i <= 10 /\ tk.log[i][1] = t0) => tk.log[i][2] = <<"allowed", 0>>
            /\ (Len(tk.log) >= 11 /\ tk.log[11][1] = t0)
                  => tk.log[11][2] = <<"denied", 1 * TestConfig.requestsPerMinute>>
            /\ (Len(tk.log) >= 12 /\ tk.log[11][1] = t0 /\ tk.log[12][1] = t0 + 2)
                  => tk.log[12][2] = <<"allowed", 0>>
            /\ (Len(tk.log) = 12 /\ tk.log[11][1] = t0 /\ tk.log[12][1] = t0 + 2)
                  => tk.b.tokens = 1 * OneTokenOf(TestConfig)

\* C12 witness: eleven calls at the moment of the first one, the eleventh
\* denied, and a twelfth call two seconds later, admitted.
C12_Witness ==
    /\ Len(tk.log) = 12
    /\ tk.log[11][1] = tk.log[1][1] /\ tk.log[11][2][1] = "denied"
    /\ tk.log[12][1] = tk.log[1][1] + 2 /\ tk.log[12][2][1] = "allowed"

(***************************************************************************)
(* Registry: properties                                                    *)
(***************************************************************************)

\* The step is a call of the named registry operation.
RegStep(op) == reg' # reg /\ reg'.last.op = op

\* C13: Add of an entry whose service the map does not hold stores it and
\* hands emitEvent a spec.added event; Add for a service the map holds
\* replaces the stored entry and hands emitEvent a spec.updated event; the
\* channel takes the event when it has room.
C13_AddInsertsOrReplaces ==
    [][RegStep("add") =>
        LET e == reg'.last.arg
            n == e.serviceName
        IN  /\ reg'.specs[n] = e
            /\ \A m \in Names \ {n} : reg'.specs[m] = reg.specs[m]
            /\ reg.specs[n] = NoSpec => reg'.last.ev = SpecEventAdded
            /\ reg.specs[n] # NoSpec => reg'.last.ev = SpecEventUpdated
            /\ reg.events < EventCapacity => reg'.events = reg.events + 1]_vars

\* C13 witness: an Add has replaced the entry of a service and its
\* spec.updated event is in the channel.
C13_Witness ==
    /\ reg.last.op = "add" /\ reg.last.ev = SpecEventUpdated /\ reg.last.queued
    /\ reg.specs[reg.last.name] = reg.last.arg
    /\ reg.events >= 2

\* C14: no Get changes the map, and a Get for a service whose entry's TTL has
\* elapsed returns that entry with the freshness flag false.
C14_GetLeavesStaleEntry ==
    [][RegStep("get") =>
        LET spec == reg.specs[reg'.last.name]
        IN  /\ reg'.specs = reg.specs
            /\ (spec # NoSpec /\ spec.ttl > 0 /\ now - spec.fetchedAt > spec.ttl)
                  => reg'.last.ret = <<spec, FALSE>>]_vars

\* C14 witness: a Get has returned a stale entry, which is still in the map.
C14_Witness ==
    /\ reg.last.op = "get"
    /\ reg.last.ret[1] # NoSpec /\ ~reg.last.ret[2]
    /\ reg.specs[reg.last.name] = reg.last.ret[1]

\* C15: a Get for a service whose entry was last changed by Add(e) returns e,
\* and a Get for a service whose entry was last changed by Remove reports
\* not-found.
C15_GetAfterAddAndRemove ==
    [][RegStep("get") =>
        LET h == reg.hist[reg'.last.name]
        IN  /\ h.op = "add" => reg'.last.ret[1] = h.e
            /\ h.op = "remove" => reg'.last.ret = <<NoSpec, FALSE>>]_vars

\* C15 witness: a Get has returned the entry last added for its service,
\* after another service was added and removed.
C15_Witness ==
    /\ reg.last.op = "get"
    /\ reg.hist[reg.last.name].op = "add"
    /\ reg.last.ret[1] = reg.hist[reg.last.name].e
    /\ \E m \in Names : reg.hist[m].op = "remove" /\ reg.specs[m] = NoSpec

\* C16: an Add, a Remove or a janitor run that finds the channel holding
\* EventCapacity events completes: the map is changed as the operation
\* says, and the channel still holds EventCapacity events, the new event
\* not among them.
C16_FullQueueDropsEvent ==
    [][(reg.events = EventCapacity
          /\ (RegStep("add") \/ RegStep("remove") \/ RegStep("cleanup"))) =>
        /\ reg'.events = EventCapacity
        /\ reg'.last.op = "add" => reg'.specs[reg'.last.name] = reg'.last.arg
        /\ reg'.last.op = "remove" => reg'.specs[reg'.last.name] = NoSpec
        /\ reg'.last.op = "cleanup" =>
              \A n \in Names :
                  (reg.specs[n] # NoSpec /\ reg.specs[n].ttl > 0
                     /\ now - reg.specs[n].fetchedAt > 2 * reg.specs[n].ttl)
                    => reg'.specs[n] = NoSpec]_vars

\* C16 witness: the janitor has evicted an entry while the channel was full,
\* and the removed event was dropped.
C16_Witness ==
    /\ reg.events = EventCapacity
    /\ reg.last.op = "cleanup" /\ reg.last.ev = SpecEventRemoved /\ ~reg.last.queued
    /\ reg.hist["a"].op = "evict" /\ reg.specs["a"] = NoSpec

\* C17: a janitor run deletes no entry whose age is below twice its TTL.
C17_JanitorKeepsYoungEntries ==
    [][RegStep("cleanup") =>
        \A n \in Names :
            (reg.specs[n] # NoSpec /\ reg'.specs[n] = NoSpec)
              => now - reg.specs[n].fetchedAt >= 2 * reg.specs[n].ttl]_vars

\* C17 witness: the janitor has evicted one entry and kept another, expired
\* one.
C17_Witness ==
    /\ reg.last.op = "cleanup"
    /\ \E n \in Names : reg.hist[n].op = "evict"
    /\ \E m \in Names : reg.specs[m] # NoSpec /\ IsExpired(reg.specs[m], now)

(***************************************************************************)
(* Hooks: properties                                                       *)
(***************************************************************************)

\* Hook a goes before hook b: higher priority, or equal priority and
\* registered earlier.
Before(a, b) ==
    a.priority > b.priority \/ (a.priority = b.priority /\ a.id < b.id)

\* The first hook of the phase's log that failed, 0 if none did.
FirstFailed ==
    IF \E i \in DOMAIN hk.ph.log : hk.ph.log[i].id \in hk.ph.failed
    THEN hk.ph.log[CHOOSE i \in DOMAIN hk.ph.log :
                       /\ hk.ph.log[i].id \in hk.ph.failed
                       /\ \A j \in 1..(i - 1) : hk.ph.log[j].id \notin hk.ph.failed].id
    ELSE 0

\* C18: whatever hooks were registered, the hooks a phase has executed were
\* executed in order of descending priority, those of equal priority in the
\* order of their registration.
C18_PriorityThenRegistrationOrder ==
    \A i, j \in DOMAIN hk.ph.log : i < j => Before(hk.ph.log[i], hk.ph.log[j])

\* C18 witness: a phase has executed three hooks, first the one registered
\* last, then two of equal priority in the order of their registration.
C18_Witness ==
    /\ hk.ph.pc = "done" /\ Len(hk.ph.log) = 3
    /\ hk.ph.log[1].id = 3
    /\ hk.ph.log[2].priority = hk.ph.log[3].priority
    /\ hk.ph.log[2].id = 1 /\ hk.ph.log[3].id = 2

\* C19: in a pre-request or post-response phase the hooks executed are the
\* first ones of the phase's hooks, each once; only the last of them can
\* have failed, and when it has, the phase has returned its error; a phase
\* that returned nil has executed all its hooks.
C19_FirstFailureStopsPhase ==
    hk.ph.type \in {HookTypePreRequest, HookTypePostResponse} =>
        /\ Len(hk.ph.log) <= Len(hk.ph.hooks)
        /\ hk.ph.log = SubSeq(hk.ph.hooks, 1, Len(hk.ph.log))
        /\ \A i, j \in DOMAIN hk.ph.hooks : i # j => hk.ph.hooks[i].id # hk.ph.hooks[j].id
        /\ \A i \in DOMAIN hk.ph.log :
              hk.ph.log[i].id \in hk.ph.failed =>
                  i = Len(hk.ph.log) /\ hk.ph.pc = "done" /\ hk.ph.err = hk.ph.log[i].id
        /\ (hk.ph.pc = "done" /\ hk.ph.err = 0) => hk.ph.log = hk.ph.hooks

\* C19 witness: a pre-request phase with three hooks has returned the error
\* of the second one after executing the first two.
C19_Witness ==
    /\ hk.ph.type = HookTypePreRequest /\ hk.ph.pc = "done"
    /\ Len(hk.ph.hooks) = 3 /\ Len(hk.ph.log) = 2
    /\ hk.ph.failed = {hk.ph.log[2].id} /\ hk.ph.err = hk.ph.log[2].id

\* C20: an on-error phase that has returned has executed every on-error
\* hook, also after one of them failed, and has returned the error of the
\* first hook that failed.
C20_ErrorHooksRunToCompletion ==
    (hk.ph.type = HookTypeOnError /\ hk.ph.pc = "done") =>
        /\ hk.ph.log = hk.ph.hooks
        /\ hk.ph.err = FirstFailed

\* C21: when a pre-request phase returns the error of a hook that failed,
\* every registered on-error hook has been executed in that call, and the
\* error returned is the failing pre-request hook's.
C21_PreFailureRunsErrorHooks ==
    [][(hk.ph.type = HookTypePreRequest /\ hk.ph.pc = "run" /\ hk'.ph.pc = "done"
          /\ hk'.ph.failed # {}) =>
        /\ hk'.ph.err \in hk'.ph.failed
        /\ \A i \in DOMAIN hk.hooks[HookTypeOnError] :
              \E j \in DOMAIN hk'.ph.log : hk'.ph.log[j] = hk.hooks[HookTypeOnError][i]]_vars

\* C22: once the ctx of a running phase is cancelled while hooks of the phase
\* have not started yet, none of them is executed: the phase's next step is
\* to return the cancelled error.
C22_CancelSkipsRemainingHooks ==
    [][(hk.ph.pc = "run" /\ hk.ph.cancelled /\ Len(hk.ph.log) < Len(hk.ph.hooks)) =>
        /\ hk'.ph.log = hk.ph.log
        /\ hk'.ph.pc = "done" /\ hk'.ph.err = ErrCancelled]_vars

(***************************************************************************)
(* Versioning: properties                                                  *)
(***************************************************************************)

\* The versions registered for service s.
Registered(s) == IF s \in DOMAIN vm.specs THEN vm.specs[s] ELSE {}

\* The registered versions of s with r's major and a minor at least r's.
SameMajorMinorAtLeast(s, r) ==
    {v \in Registered(s) : v.Major = r.Major /\ v.Minor >= r.Minor}

\* res is the highest version of the non-empty set vs.
IsHighestOf(res, vs) ==
    res.ok /\ res.version \in vs /\ \A w \in vs : Compare(w, res.version) <= 0

\* C23 as stated: resolving an explicit version r returns a registered version
\* with r's (major, minor) when one exists, otherwise the highest registered
\* version with r's major and a minor >= r's, otherwise not-found.
C23_SameMajorMinorFirst ==
    vm.last.op = "explicit" =>
        LET s == vm.last.service
            r == vm.last.req
            res == vm.last.res
            same == {v \in Registered(s) : v.Major = r.Major /\ v.Minor = r.Minor}
        IN  IF same # {} THEN res.ok /\ res.version \in same
            ELSE IF SameMajorMinorAtLeast(s, r) # {}
            THEN IsHighestOf(res, SameMajorMinorAtLeast(s, r))
            ELSE ~res.ok

\* C23 (amended): resolving an explicit version r returns r itself when r (its
\* major, minor, patch and label) is registered, otherwise the highest
\* registered version with r's major and a minor >= r's, otherwise not-found.
C23_ExactVersionFirst ==
    vm.last.op = "explicit" =>
        LET s == vm.last.service
            r == vm.last.req
            res == vm.last.res
        IN  IF r \in Registered(s) THEN res.ok /\ res.version = r
            ELSE IF SameMajorMinorAtLeast(s, r) # {}
            THEN IsHighestOf(res, SameMajorMinorAtLeast(s, r))
            ELSE ~res.ok

\* An explicit version that is registered next to a higher compatible one.
C23_Witness ==
    /\ vm.last.op = "explicit"
    /\ vm.last.req \in Registered(vm.last.service)
    /\ \E w \in SameMajorMinorAtLeast(vm.last.service, vm.last.req) :
           Compare(w, vm.last.req) > 0
    /\ vm.last.res.ok /\ vm.last.res.version = vm.last.req

V100 == Version(1, 0, 0, <<>>)
V110 == Version(1, 1, 0, <<>>)
PathV1List == <<"/", "v", "1", "/", "l", "i", "s", "t">>
PathV2List == <<"/", "v", "2", "/", "l", "i", "s", "t">>

\* The path of the last request was resolved with exactly 1.0.0 and 1.1.0
\* registered for the service.
ResolvedPathWithV100V110(path) ==
    /\ vm.last.op = "path" /\ vm.last.path = path
    /\ Registered(vm.last.service) = {V100, V110}

\* C24 as stated: with 1.0.0 and 1.1.0 registered, /v1/list resolves to 1.1.0
\* and /v2/list fails with not-found.
C24_V1ResolvesToV110 ==
    /\ ResolvedPathWithV100V110(PathV1List) =>
           vm.last.res.ok /\ vm.last.res.version = V110
    /\ ResolvedPathWithV100V110(PathV2List) => ~vm.last.res.ok

\* C24 (amended): with 1.0.0 and 1.1.0 registered, /v1/list resolves to 1.0.0,
\* the version the path names, and /v2/list fails with not-found.
C24_V1ResolvesToV100 ==
    /\ ResolvedPathWithV100V110(PathV1List) =>
           vm.last.res.ok /\ vm.last.res.version = V100
    /\ ResolvedPathWithV100V110(PathV2List) => ~vm.last.res.ok

C24_Witness ==
    /\ ResolvedPathWithV100V110(PathV1List)
    /\ vm.last.res.ok /\ vm.last.res.version = V100

\* C25: for every valid Version v (non-negative numbers, any label), parsing
\* the string that v.String() returns succeeds and gives v back.
C25_ParseStringRoundTrip ==
    pv.op = "roundtrip" => pv.res.ok /\ pv.res.version = pv.v

(***************************************************************************)
(* Parser: properties                                                      *)
(***************************************************************************)

\* The eight methods of an OpenAPI path item that C26 names.
HTTPMethods == {"GET", "POST", "PUT", "DELETE", "PATCH", "HEAD", "OPTIONS", "TRACE"}

\* The (path, method) pairs of the last compiled document that define an operation.
DefinedOperations ==
    IF ps.spec.Paths = NilPaths THEN {}
    ELSE {d \in (DOMAIN ps.spec.Paths) \X HTTPMethods : d[2] \in DOMAIN ps.spec.Paths[d[1]].ops}

\* C26: a compilation yields exactly one route for every (path, method) that
\* defines an operation, under each of the eight methods, and no other route;
\* compiling the same document again yields the routes in the same order.
C26_OneRoutePerOperationStableOrder ==
    ps.parsed =>
        /\ \A d \in DefinedOperations :
               Cardinality({i \in DOMAIN ps.routes :
                               ps.routes[i].Path = d[1] /\ ps.routes[i].Method = d[2]}) = 1
        /\ \A i \in DOMAIN ps.routes :
               <<ps.routes[i].Path, ps.routes[i].Method>> \in DefinedOperations
        /\ ps.again => ps.routes = ps.prev

\* The elements of the parameter list s that have a value.
RECURSIVE WithValue(_)
WithValue(s) ==
    IF s = <<>> THEN <<>>
    ELSE IF Head(s) = NilParam THEN WithValue(Tail(s))
    ELSE <<Head(s)>> \o WithValue(Tail(s))

\* The path-level parameters s without those that the operation-level list
\* over overrides: the ones with the same location and name.
RECURSIVE NotOverridden(_, _)
NotOverridden(s, over) ==
    IF s = <<>> THEN <<>>
    ELSE IF \E k \in DOMAIN over : over[k].In = Head(s).In /\ over[k].Name = Head(s).Name
    THEN NotOverridden(Tail(s), over)
    ELSE <<Head(s)>> \o NotOverridden(Tail(s), over)

\* C27: a route's parameters are the path-level parameters in document order
\* followed by the operation-level ones in document order, a path-level
\* parameter being left out when an operation-level one has its (location, name).
C27_PathThenOperationParamsOverride ==
    ps.parsed =>
        \A i \in DOMAIN ps.routes :
            LET item == ps.spec.Paths[ps.routes[i].Path]
                opParams == WithValue(item.ops[ps.routes[i].Method].Parameters)
            IN  ps.routes[i].Parameters =
                    NotOverridden(WithValue(item.Parameters), opParams) \o opParams

\* The entries with a TTL.
ExpiringEntries == {e \in SpecInfos({"a"}, MaxTimeReg) : e.ttl > 0}

\* C29: once StartCleanup has been called, and unless its ctx is cancelled, an
\* entry with a TTL that has been expired for more than one further TTL does
\* not stay in the registry for ever; and once the ctx is cancelled the
\* janitor removes nothing.
C29_JanitorEventuallyEvicts ==
    /\ \A e \in ExpiringEntries :
           []((reg.last.op = "start" /\ ~reg.cancelled) =>
                 []((reg.specs["a"] = e /\ now - e.fetchedAt > 2 * e.ttl)
                        ~> (reg.specs["a"] # e \/ reg.cancelled)))
    /\ [][reg.cancelled => ~(RegStep("cleanup") /\ reg'.specs # reg.specs)]_vars

(***************************************************************************)
(* Registry: properties of the locking                                     *)
(***************************************************************************)

\* C28: every call of a registry method returns, a Stats call in particular,
\* whatever calls of Add, Remove, Get and runs of the janitor go on beside it.
C28_EveryRegistryCallReturns ==
    \A q \in RegProcs : (lk.p[q].pc # "idle") ~> (lk.p[q].pc = "idle")

(***************************************************************************)
(* MCP server: properties                                                  *)
(***************************************************************************)

\* C30: an inserted entry never changes; a reader that holds an entry it got
\* from Get or List finds behind it what it found when it got it.
C30_HeldEntryNeverChanges ==
    srv.held # NilSpecInfo => srv.heap[srv.held] = srv.seen

(***************************************************************************)
(* Circuit breaker: late results, counters on entry, conservation          *)
(***************************************************************************)

\* The step is the return of caller c's executor with a value.
ReportsSuccess(c) ==
    /\ call[c].pc = "wait" /\ call'[c].pc = "idle"
    /\ last'.op = "done" /\ last'.rec = "S"

\* C31: a success reported in half-open by a call that was admitted before
\* the breaker last opened does not count toward successThreshold and does
\* not close the breaker.
C31_LateSuccessDoesNotCount ==
    [][\A c \in Callers :
          (ReportsSuccess(c) /\ call[c].stale /\ cb.state = StateHalfOpen) =>
              (cb'.successes = cb.successes /\ cb'.state = StateHalfOpen)]_vars

\* The step changes the breaker's state.
EntersState == cb'.state # cb.state

\* C32 as stated: after every entry to a state both the consecutive-failure
\* and the consecutive-success counter are zero.
C32_BothCountersZeroOnEntry ==
    [][EntersState => (cb'.failures = 0 /\ cb'.successes = 0)]_vars

\* C32 amended: after every entry to a state the consecutive-success counter
\* is zero; the consecutive-failure counter is zero after an entry to closed,
\* and is at least one after an entry to open or to half-open.
C32_CountersOnEntry ==
    [][EntersState =>
          /\ cb'.successes = 0
          /\ (cb'.state = StateClosed => cb'.failures = 0)
          /\ (cb'.state # StateClosed => cb'.failures >= 1)]_vars

\* C32 witness: a call has just moved the breaker from open to half-open and
\* the failures that opened it are still counted.
C32_Witness ==
    /\ last.op = "call" /\ last.from = StateOpen /\ cb.state = StateHalfOpen
    /\ cb.failures >= MaxFailures /\ cb.successes = 0

\* The calls that were admitted and have not yet recorded their result.
InFlight == Cardinality({c \in Callers : call[c].pc # "idle"})

\* C33: at every moment total requests = total successes + total failures +
\* rejected-open + calls in flight, and timeouts <= total failures.
C33_CountersConserved ==
    /\ cb.totalRequests =
          cb.totalSuccesses + cb.totalFailures + cb.totalRejected + InFlight
    /\ cb.totalTimeouts <= cb.totalFailures

(* Rate limiters: janitor removal against the run that keeps the entry *)

\* The window the key would have in the run whose janitor removes nothing:
\* with no Reset it holds every admission of the key, pruned at the next call.
KeptWindow(k) == sw.adm[k]

\* C34: in runs of Allow calls and janitor ticks (no Reset), every Allow of
\* the sliding-window limiter returns what it returns in the run that keeps
\* the key's window: admitted iff fewer than requestsPerMinute of the key's
\* admissions are still inside the window.
C34_RemovalKeepsOutcomes ==
    [][sw.nreset = 0 =>
         \A q \in Procs :
            (sw.p[q].pc = "have" /\ sw'.p[q].pc = "idle") =>
               (sw'.p[q].ret[1] = "allowed"
                  <=> Len(Prune(KeptWindow(sw.p[q].key), now)) < SWRequestsPerMinute)]_vars

(***************************************************************************)
(* Registry: the event stream (registry.go).  The writers Add, Remove and  *)
(* cleanupExpired are goroutines that take r.mutex, change the map, hand   *)
(* the event to emitEvent and release the mutex, one step each.  The       *)
(* channel is the sequence of the events it holds.                         *)
(***************************************************************************)

\* The goroutines that call the writers.
NumWriters == 2
Writers == 1..NumWriters

\* Bounds of the exploration: the capacity of the events channel (100 in
\* New), the mutations made, and the clock ticks.
ChanCapacity == 1
MaxMutations == 3
MaxTimeEv == 3

\* ghost seq: the position of the event's mutation in the log; ghost by: the
\* goroutine that made it.
NoEvent == [Type |-> "none", ServiceName |-> "", seq |-> 0, by |-> 0]

IdleWriter == [pc |-> "idle", op |-> "none", arg |-> NoSpec, event |-> NoEvent]

\* mutex: the goroutine that holds r.mutex (0: none); ghost log: the
\* mutations of the map in the order they took effect; ghost got: the events
\* the reader of Events() has received.
NewEventStream ==
    [mutex |-> 0, specs |-> [n \in {"a"} |-> NoSpec], events |-> <<>>,
     log |-> <<>>, got |-> <<>>, w |-> [p \in Writers |-> IdleWriter]]

\* A mutex that excludes nobody.
MutexFreeAlways(mutex) == TRUE

\* r.mutex.Lock() returns only when no goroutine holds the mutex.
MutexFree(mutex) == mutex = 0

\* The entries Add is called with at time t.
FreshSpecs(t) == {[serviceName |-> "a", fetchedAt |-> t, ttl |-> d] : d \in 0..1}

\* Add, Remove, cleanupExpired: r.mutex.Lock() returns.
EvLock(p, op, arg) ==
    /\ ev.w[p].pc = "idle"
    /\ Len(ev.log) < MaxMutations
    /\ MutexFree(ev.mutex)
    /\ ev' = [ev EXCEPT !.mutex = p,
                        !.w[p] = [IdleWriter EXCEPT !.pc = "write", !.op = op, !.arg = arg]]
    /\ UNCHANGED <<now, oldVars, ctl, mgr, hub>>

\* The writer's change of the map and the event it builds for it; a Remove
\* of an absent service and a cleanup that finds nothing to evict change
\* nothing and emit nothing.
EvWrite(p) ==
    /\ ev.w[p].pc = "write"
    /\ LET op == ev.w[p].op
           n == "a"
           spec == ev.specs[n]
           changes == \/ op = "Add"
                      \/ op = "Remove" /\ spec # NoSpec
                      \/ op = "cleanupExpired" /\ spec # NoSpec /\ ShouldEvict(spec, now)
           type == IF op = "Add" THEN EventType(spec # NoSpec) ELSE SpecEventRemoved
       IN  IF changes
           THEN ev' = [ev EXCEPT
                    !.specs = IF op = "Add" THEN [@ EXCEPT ![n] = ev.w[p].arg]
                              ELSE Delete(@, n),
                    !.log = Append(@, [Type |-> type, ServiceName |-> n]),
                    !.w[p].pc = "emit",
                    !.w[p].event = [Type |-> type, ServiceName |-> n,
                                    seq |-> Len(ev.log) + 1, by |-> p]]
           ELSE ev' = [ev EXCEPT !.w[p].pc = "unlock"]
    /\ UNCHANGED <<now, oldVars, ctl, mgr, hub>>

\* emitEvent on a channel of capacity cap: the send, or the default case
\* that drops the event.
Send(events, cap, event) == IF Len(events) < cap THEN Append(events, event) ELSE events

\* r.emitEvent(SpecEvent{...})
EvEmit(p) ==
    /\ ev.w[p].pc = "emit"
    /\ ev' = [ev EXCEPT !.events = Send(@, ChanCapacity, ev.w[p].event),
                        !.w[p].pc = "unlock"]
    /\ UNCHANGED <<now, oldVars, ctl, mgr, hub>>

\* The deferred r.mutex.Unlock(), and the return.
EvUnlock(p) ==
    /\ ev.w[p].pc = "unlock"
    /\ ev' = [ev EXCEPT !.mutex = 0, !.w[p] = IdleWriter]
    /\ UNCHANGED <<now, oldVars, ctl, mgr, hub>>

\* The reader of Events() receives the oldest event.
EvReceive ==
    /\ ev.events # <<>>
    /\ ev' = [ev EXCEPT !.events = Tail(@), !.got = Append(@, Head(ev.events))]
    /\ UNCHANGED <<now, oldVars, ctl, mgr, hub>>

TickEv ==
    /\ now < MaxTimeEv
    /\ now' = now + 1
    /\ UNCHANGED <<oldVars, lateVars>>

NextEv ==
    \/ \E p \in Writers, arg \in FreshSpecs(now) : EvLock(p, "Add", arg)
    \/ \E p \in Writers : EvLock(p, "Remove", NoSpec)
    \/ \E p \in Writers : EvLock(p, "cleanupExpired", NoSpec)
    \/ \E p \in Writers : EvWrite(p)
    \/ \E p \in Writers : EvEmit(p)
    \/ \E p \in Writers : EvUnlock(p)
    \/ EvReceive
    \/ TickEv

\* The events that have entered the channel, in the order they entered.
Stream == ev.got \o ev.events

MaxTimeCtl == 2
MaxTTLCtl == 1

\* The serviceName arguments: a service, and the missing argument.
CtlServiceNames == {"a", ""}

\* The absent map entry.
NoEntry == [serviceName |-> "", fetchedAt |-> -1, ttl |-> -1, authPolicy |-> NilAuthPolicy]

\* Fetcher.FetchSpec at time t: a new SpecInfo with the given name and TTL,
\* fetched now; the literal sets no AuthPolicy.
FetchSpecAt(serviceName, ttl, t) ==
    [serviceName |-> serviceName, fetchedAt |-> t, ttl |-> ttl, authPolicy |-> NilAuthPolicy]

\* Registry.Get at time t: the entry, and whether it is there and fresh.
Get(specs, serviceName, t) ==
    LET spec == specs[serviceName]
    IN  IF spec = NoEntry THEN <<NoEntry, FALSE>>
        ELSE IF IsExpired(spec, t) THEN <<spec, FALSE>>
        ELSE <<spec, TRUE>>

\* ghost: the last tool call, its serviceName argument, its result, and the
\* entry the map held for the service when the call began.
NoTool == [tool |-> "none", serviceName |-> "", result |-> "none", before |-> NoEntry]

NewControl == [specs |-> [n \in CtlServiceNames \ {""} |-> NoEntry], last |-> NoTool]

\* The entry of the service in the map (NoEntry for the missing argument).
EntryOf(serviceName) == IF serviceName = "" THEN NoEntry ELSE ctl.specs[serviceName]

\* ctl after a tool call that changed the map to specs1 and returned result.
Returned(tool, serviceName, specs1, result) ==
    [specs |-> specs1,
     last |-> [tool |-> tool, serviceName |-> serviceName, result |-> result,
               before |-> EntryOf(serviceName)]]

\* handleAddSpec with a url; ok: whether FetchSpec succeeds.
handleAddSpec(serviceName, ttl, ok) ==
    /\ ctl' = IF serviceName = ""
              THEN Returned("addSpec", serviceName, ctl.specs, "serviceName is required")
              ELSE IF ~ok
              THEN Returned("addSpec", serviceName, ctl.specs, "Failed to add specification")
              ELSE Returned("addSpec", serviceName,
                       [ctl.specs EXCEPT ![serviceName] = FetchSpecAt(serviceName, ttl, now)],
                       "success")
    /\ UNCHANGED <<now, oldVars, ev, mgr, hub>>

\* handleRefreshSpec; ok: whether FetchSpec succeeds.
handleRefreshSpec(serviceName, ok) ==
    /\ ctl' = IF serviceName = ""
              THEN Returned("refreshSpec", serviceName, ctl.specs, "serviceName is required")
              ELSE LET got == Get(ctl.specs, serviceName, now)
                   IN  IF ~got[2]
                       THEN Returned("refreshSpec", serviceName, ctl.specs, "not found")
                       ELSE IF ~ok
                       THEN Returned("refreshSpec", serviceName, ctl.specs,
                                     "Failed to refresh specification")
                       ELSE Returned("refreshSpec", serviceName,
                                [ctl.specs EXCEPT ![serviceName] =
                                     FetchSpecAt(serviceName, got[1].ttl, now)],
                                "success")
    /\ UNCHANGED <<now, oldVars, ev, mgr, hub>>

\* handleRemoveSpec: Registry.Remove looks at the map only.
handleRemoveSpec(serviceName) ==
    /\ ctl' = IF serviceName = ""
              THEN Returned("removeSpec", serviceName, ctl.specs, "serviceName is required")
              ELSE IF ctl.specs[serviceName] = NoEntry
              THEN Returned("removeSpec", serviceName, ctl.specs, "not found")
              ELSE Returned("removeSpec", serviceName,
                       [ctl.specs EXCEPT ![serviceName] = NoEntry], "success")
    /\ UNCHANGED <<now, oldVars, ev, mgr, hub>>

\* handleEnableAuthPolicy as one step: Get, spec.AuthPolicy = authPolicy, Add.
EnableAuthPolicy(serviceName, authTypeStr) ==
    /\ ctl' = IF serviceName = ""
              THEN Returned("enableAuthPolicy", serviceName, ctl.specs,
                            "serviceName is required")
              ELSE IF authTypeStr = ""
              THEN Returned("enableAuthPolicy", serviceName, ctl.specs, "authType is required")
              ELSE IF authTypeStr \notin {AuthTypeBasic, AuthTypeBearer, AuthTypeOAuth2}
              THEN Returned("enableAuthPolicy", serviceName, ctl.specs, "Invalid authType")
              ELSE IF ~Get(ctl.specs, serviceName, now)[2]
              THEN Returned("enableAuthPolicy", serviceName, ctl.specs, "not found")
              ELSE Returned("enableAuthPolicy", serviceName,
                       [ctl.specs EXCEPT ![serviceName].authPolicy = authTypeStr], "success")
    /\ UNCHANGED <<now, oldVars, ev, mgr, hub>>

\* handleDisableAuthPolicy as one step: Get, spec.AuthPolicy = nil, Add.
DisableAuthPolicy(serviceName) ==
    /\ ctl' = IF serviceName = ""
              THEN Returned("disableAuthPolicy", serviceName, ctl.specs,
                            "serviceName is required")
              ELSE IF ~Get(ctl.specs, serviceName, now)[2]
              THEN Returned("disableAuthPolicy", serviceName, ctl.specs, "not found")
              ELSE Returned("disableAuthPolicy", serviceName,
                       [ctl.specs EXCEPT ![serviceName].authPolicy = NilAuthPolicy], "success")
    /\ UNCHANGED <<now, oldVars, ev, mgr, hub>>

TickCtl ==
    /\ now < MaxTimeCtl
    /\ now' = now + 1
    /\ UNCHANGED <<oldVars, lateVars>>

NextCtl ==
    \/ \E n \in CtlServiceNames, ttl \in 0..MaxTTLCtl, ok \in BOOLEAN : handleAddSpec(n, ttl, ok)
    \/ \E n \in CtlServiceNames, ok \in BOOLEAN : handleRefreshSpec(n, ok)
    \/ \E n \in CtlServiceNames : handleRemoveSpec(n)
    \/ \E n \in CtlServiceNames, a \in AuthTypeStrs : EnableAuthPolicy(n, a)
    \/ \E n \in CtlServiceNames : DisableAuthPolicy(n)
    \/ TickCtl

\* The step is a call of the tool that returned the result.
ToolStep(tool, result) ==
    ctl' # ctl /\ ctl'.last.tool = tool /\ ctl'.last.result = result

\* C36: a refreshSpec that succeeds leaves the auth policy of the service's
\* entry as it was before the refresh.
C36_RefreshKeepsAuthPolicy ==
    [][\A n \in CtlServiceNames \ {""} :
          (ToolStep("refreshSpec", "success") /\ ctl'.last.serviceName = n)
             => ctl'.specs[n].authPolicy = ctl.specs[n].authPolicy]_vars

\* The tools that name a service and look it up.
LookupTools == {"refreshSpec", "removeSpec", "enableAuthPolicy", "disableAuthPolicy"}

\* C37: a call of refreshSpec, removeSpec, enableAuthPolicy or
\* disableAuthPolicy with the name of a service reports not-found if and
\* only if the registry's map holds no entry for that name when the call is
\* made, whatever the age of a stored entry.
C37_NotFoundIffNoEntry ==
    (ctl.last.tool \in LookupTools /\ ctl.last.serviceName # "")
       => (ctl.last.result = "not found" <=> ctl.last.before = NoEntry)

(***************************************************************************)
(* Circuit breaker Manager (part_004, Manager).  A call of Execute reads   *)
(* m.enabled, and when breaking is enabled runs GetOrCreate under m.mutex  *)
(* (lock, lookup, create and store, unlock: one step each) and then the    *)
(* breaker's Execute.                                                      *)
(***************************************************************************)

\* The goroutines that call Manager.Execute, and the calls they make.
NumMgrProcs == 2
MgrProcs == 1..NumMgrProcs
MaxMgrCalls == 3

BreakerNames == {"a", "b"}

IdleMgrProc == [pc |-> "idle", name |-> "", breaker |-> 0]

\* breakers: the map (0: no entry); obj: the CircuitBreaker objects ever
\* made, each with its name and totalRequests; mutex: the holder of m.mutex;
\* ghost routed: per name, the calls that went through a breaker; ghost
\* calls: the calls of Execute so far.
NewBreakerManager ==
    [enabled |-> TRUE, mutex |-> 0, breakers |-> [n \in BreakerNames |-> 0],
     obj |-> <<>>, p |-> [q \in MgrProcs |-> IdleMgrProc],
     routed |-> [n \in BreakerNames |-> 0], calls |-> 0]

\* A lookup that never finds the breaker.
ExistsNever(breakers, name) == FALSE

\* `breaker, exists := m.breakers[name]`
Exists(breakers, name) == breakers[name] # 0

\* Manager.Execute, Manager.ExecuteWithFallback: `if !m.enabled` runs the
\* executor without a breaker; otherwise the call enters GetOrCreate.
MgrExecute(q, name) ==
    /\ mgr.p[q].pc = "idle"
    /\ mgr.calls < MaxMgrCalls
    /\ mgr' = [mgr EXCEPT !.calls = @ + 1,
                          !.p[q] = IF mgr.enabled
                                   THEN [pc |-> "Lock", name |-> name, breaker |-> 0]
                                   ELSE IdleMgrProc]
    /\ UNCHANGED <<now, oldVars, ev, ctl, hub>>

\* GetOrCreate: m.mutex.Lock() returns.
GetOrCreateLock(q) ==
    /\ mgr.p[q].pc = "Lock"
    /\ MutexFree(mgr.mutex)
    /\ mgr' = [mgr EXCEPT !.mutex = q, !.p[q].pc = "lookup"]
    /\ UNCHANGED <<now, oldVars, ev, ctl, hub>>

\* GetOrCreate: the lookup, and the return of the breaker found.
GetOrCreateLookup(q) ==
    /\ mgr.p[q].pc = "lookup"
    /\ mgr' = IF Exists(mgr.breakers, mgr.p[q].name)
              THEN [mgr EXCEPT !.p[q].breaker = mgr.breakers[mgr.p[q].name],
                               !.p[q].pc = "Unlock"]
              ELSE [mgr EXCEPT !.p[q].pc = "create"]
    /\ UNCHANGED <<now, oldVars, ev, ctl, hub>>

\* GetOrCreate: NewCircuitBreaker and m.breakers[name] = breaker.
GetOrCreateStore(q) ==
    /\ mgr.p[q].pc = "create"
    /\ mgr' = [mgr EXCEPT !.obj = Append(@, [name |-> mgr.p[q].name, totalRequests |-> 0]),
                          !.breakers[mgr.p[q].name] = Len(mgr.obj) + 1,
                          !.p[q].breaker = Len(mgr.obj) + 1,
                          !.p[q].pc = "Unlock"]
    /\ UNCHANGED <<now, oldVars, ev, ctl, hub>>

\* GetOrCreate: the deferred m.mutex.Unlock().
GetOrCreateUnlock(q) ==
    /\ mgr.p[q].pc = "Unlock"
    /\ mgr' = [mgr EXCEPT !.mutex = 0, !.p[q].pc = "run"]
    /\ UNCHANGED <<now, oldVars, ev, ctl, hub>>

\* breaker.Execute on the breaker that GetOrCreate returned.
BreakerExecute(q) ==
    /\ mgr.p[q].pc = "run"
    /\ mgr' = [mgr EXCEPT !.obj[mgr.p[q].breaker].totalRequests = @ + 1,
                          !.routed[mgr.p[q].name] = @ + 1,
                          !.p[q] = IdleMgrProc]
    /\ UNCHANGED <<now, oldVars, ev, ctl, hub>>

\* Manager.SetEnabled(enabled)
SetEnabled(enabled) ==
    /\ mgr.enabled # enabled
    /\ mgr' = [mgr EXCEPT !.enabled = enabled]
    /\ UNCHANGED <<now, oldVars, ev, ctl, hub>>

NextMgr ==
    \/ \E q \in MgrProcs, n \in BreakerNames : MgrExecute(q, n)
    \/ \E q \in MgrProcs : GetOrCreateLock(q)
    \/ \E q \in MgrProcs : GetOrCreateLookup(q)
    \/ \E q \in MgrProcs : GetOrCreateStore(q)
    \/ \E q \in MgrProcs : GetOrCreateUnlock(q)
    \/ \E q \in MgrProcs : BreakerExecute(q)
    \/ \E b \in BOOLEAN : SetEnabled(b)

\* The breakers ever made for the name.
MadeFor(name) == {i \in DOMAIN mgr.obj : mgr.obj[i].name = name}

\* C38: for each name at most one breaker is ever made; once made it is the
\* map's entry for the name, every call that GetOrCreate has answered holds
\* it, and it has counted every call made for the name through a breaker.
C38_OneBreakerPerName ==
    \A n \in BreakerNames :
        /\ Cardinality(MadeFor(n)) <= 1
        /\ \A i \in MadeFor(n) :
              mgr.breakers[n] = i /\ mgr.obj[i].totalRequests = mgr.routed[n]
        /\ \A q \in MgrProcs :
              (mgr.p[q].name = n /\ mgr.p[q].pc \in {"Unlock", "run"})
                 => mgr.p[q].breaker \in MadeFor(n)

\* C38 witness: two concurrent calls for one name are about to run on the
\* same breaker, which has already counted an earlier call.
C38_Witness ==
    \E q1, q2 \in MgrProcs :
        /\ q1 # q2
        /\ mgr.p[q1].pc = "run" /\ mgr.p[q2].pc = "run"
        /\ mgr.p[q1].name = mgr.p[q2].name
        /\ mgr.p[q1].breaker = mgr.p[q2].breaker
        /\ mgr.routed[mgr.p[q1].name] >= 1

(***************************************************************************)
(* Websocket hub (websocket_test.go, Client and Hub).  Each client has a   *)
(* ReadPump goroutine, whose handlers call Client.Send, and a WritePump;   *)
(* the hub's Run loop is one goroutine.  The hub's channels are            *)
(* unbuffered, so a send on them and the hub's receive are one step.       *)
(***************************************************************************)

NumClients == 2
Clients == 1..NumClients

\* The capacity of a client's send channel in the explored runs (256 in
\* NewClient).
SendCapacity == 1

\* A channel: the messages it holds and the close calls made on it.
NewChan == [n |-> 0, closes |-> 0]

\* clients: h.clients; pc, todo, cur: the Run loop's place (at its select,
\* inside the broadcast loop with the clients not yet visited, or about to
\* close the channel of cur); send: each client's send channel; r: each
\* client's ReadPump; panicked: a goroutine has panicked.
NewHub ==
    [clients |-> {}, pc |-> "select", todo |-> {}, cur |-> 0,
     send |-> [c \in Clients |-> NewChan], r |-> [c \in Clients |-> "new"],
     panicked |-> FALSE]

\* close(ch): a second close panics.
Close(h, c) ==
    [h EXCEPT !.send[c].closes = @ + 1, !.panicked = @ \/ h.send[c].closes >= 1]

\* Server.HandleWebSocket: NewClient, the send on h.register with the hub's
\* case for it, and the start of the pumps.
HandleWebSocket(c) ==
    /\ ~hub.panicked
    /\ hub.r[c] = "new"
    /\ hub.pc = "select"
    /\ hub' = [hub EXCEPT !.clients = @ \cup {c}, !.r[c] = "read"]
    /\ UNCHANGED <<now, oldVars, ev, ctl, mgr>>

\* ReadPump reads a message and its handler calls Client.Send: the select
\* on c.send.  A send on a closed channel panics; with the buffer full the
\* default case is taken.
ClientSend(c) ==
    /\ ~hub.panicked
    /\ hub.r[c] = "read"
    /\ hub' = IF hub.send[c].closes > 0 THEN [hub EXCEPT !.panicked = TRUE]
              ELSE IF hub.send[c].n < SendCapacity THEN [hub EXCEPT !.send[c].n = @ + 1]
              ELSE [hub EXCEPT !.r[c] = "close"]
    /\ UNCHANGED <<now, oldVars, ev, ctl, mgr>>

\* Client.Send, default case: close(c.send).
SendClose(c) ==
    /\ ~hub.panicked
    /\ hub.r[c] = "close"
    /\ hub' = [Close(hub, c) EXCEPT !.r[c] = "unregister"]
    /\ UNCHANGED <<now, oldVars, ev, ctl, mgr>>

\* ReadPump leaves its loop on a read error; its deferred function sends
\* the client on h.unregister.
ReadPumpExit(c) ==
    /\ ~hub.panicked
    /\ hub.r[c] = "read"
    /\ hub' = [hub EXCEPT !.r[c] = "exit"]
    /\ UNCHANGED <<now, oldVars, ev, ctl, mgr>>

\* Hub.Run, case client := <-h.unregister, with the send it receives from:
\* Client.Send's (ReadPump goes on reading) or the deferred one of ReadPump.
HubUnregister(c) ==
    /\ ~hub.panicked
    /\ hub.pc = "select"
    /\ hub.r[c] \in {"unregister", "exit"}
    /\ LET h1 == IF c \in hub.clients
                 THEN [Close(hub, c) EXCEPT !.clients = @ \ {c}]
                 ELSE hub
       IN  hub' = [h1 EXCEPT !.r[c] = IF hub.r[c] = "unregister" THEN "read" ELSE "done"]
    /\ UNCHANGED <<now, oldVars, ev, ctl, mgr>>

\* WritePump receives a message from c.send.
WritePump(c) ==
    /\ ~hub.panicked
    /\ hub.send[c].n > 0
    /\ hub' = [hub EXCEPT !.send[c].n = @ - 1]
    /\ UNCHANGED <<now, oldVars, ev, ctl, mgr>>

\* Hub.Broadcast with the empty topic, and Hub.Run, case
\* broadcastMsg := <-h.broadcast: the loop over h.clients begins.
HubBroadcast ==
    /\ ~hub.panicked
    /\ hub.pc = "select"
    /\ hub' = [hub EXCEPT !.pc = "broadcast", !.todo = hub.clients]
    /\ UNCHANGED <<now, oldVars, ev, ctl, mgr>>

\* The broadcast loop, the select on client.send of the next client.
BroadcastSend(c) ==
    /\ ~hub.panicked
    /\ hub.pc = "broadcast"
    /\ c \in hub.todo
    /\ hub' = IF hub.send[c].closes > 0 THEN [hub EXCEPT !.panicked = TRUE]
              ELSE IF hub.send[c].n < SendCapacity
              THEN [hub EXCEPT !.send[c].n = @ + 1, !.todo = @ \ {c}]
              ELSE [hub EXCEPT !.pc = "close", !.cur = c]
    /\ UNCHANGED <<now, oldVars, ev, ctl, mgr>>

\* The broadcast loop, default case: close(client.send) and
\* delete(h.clients, client).
BroadcastClose ==
    /\ ~hub.panicked
    /\ hub.pc = "close"
    /\ hub' = [Close(hub, hub.cur) EXCEPT !.clients = @ \ {hub.cur},
                                          !.todo = @ \ {hub.cur},
                                          !.pc = "broadcast", !.cur = 0]
    /\ UNCHANGED <<now, oldVars, ev, ctl, mgr>>

\* The broadcast loop ends; Run is back at its select.
BroadcastDone ==
    /\ ~hub.panicked
    /\ hub.pc = "broadcast"
    /\ hub.todo = {}
    /\ hub' = [hub EXCEPT !.pc = "select"]
    /\ UNCHANGED <<now, oldVars, ev, ctl, mgr>>

NextHub ==
    \/ \E c \in Clients : HandleWebSocket(c)
    \/ \E c \in Clients : ClientSend(c)
    \/ \E c \in Clients : SendClose(c)
    \/ \E c \in Clients : ReadPumpExit(c)
    \/ \E c \in Clients : HubUnregister(c)
    \/ \E c \in Clients : WritePump(c)
    \/ HubBroadcast
    \/ \E c \in Clients : BroadcastSend(c)
    \/ BroadcastClose
    \/ BroadcastDone

\* C40: close is called at most once on every client's send channel.
C40_SendClosedAtMostOnce ==
    \A c \in Clients : hub.send[c].closes <= 1

\* C39: within the routes of one compiled document no two have the same
\* operationId, declared or synthesised.
C39_OperationIDsUnique ==
    ps.parsed =>
        \A i, j \in DOMAIN ps.routes :
            i # j => ps.routes[i].OperationID # ps.routes[j].OperationID

(***************************************************************************)
(* Specifications                                                          *)
(***************************************************************************)

Init ==
    /\ now = 0
    /\ InitCB
    /\ sw = NewSlidingWindowLimiter
    /\ tb = NewTokenBucketLimiter
    /\ tk = NewTest
    /\ reg = New
    /\ hk = NewManager
    /\ vm = NewVersionManager(VersioningStrategyPath)
    /\ pv = NoParse
    /\ ps = NewParser
    /\ lk = NewLocks
    /\ srv = NewServer
    /\ ev = NewEventStream
    /\ ctl = NewControl
    /\ mgr = NewBreakerManager
    /\ hub = NewHub

\* The registry's event stream under concurrent writers, a reader and the clock.
SpecEv == Init /\ [][NextEv]_vars

\* The MCP server's service tools, called one at a time, and the clock.
SpecCtl == Init /\ [][NextCtl]_vars

\* The breaker Manager under concurrent calls of Execute and SetEnabled.
SpecMgr == Init /\ [][NextMgr]_vars

\* The websocket hub with its clients' pumps, broadcasts and unregistrations.
SpecHub == Init /\ [][NextHub]_vars

\* The circuit breaker under concurrent callers, manual resets and the clock.
Spec == Init /\ [][NextCB]_vars

\* The sliding-window limiter under concurrent Allow calls, its janitor and Reset.
SpecSW == Init /\ [][NextSW]_vars

\* The token-bucket limiter under concurrent Allow calls, its janitor and Reset.
SpecTB == Init /\ [][NextTB]_vars

\* TestTokenBucketLimiter's limiter under one caller that calls and sleeps.
SpecTest == Init /\ [][NextTest]_vars

\* The registry with two services under Add, Get, Remove, the janitor and a reader.
SpecReg == Init /\ [][NextReg]_vars

\* The hooks Manager under registrations and one call's phases.
SpecHooks == Init /\ [][NextHooks]_vars

\* The registry with one service and an event channel that fills up.
SpecRegFull == Init /\ [][NextRegFull]_vars

\* The registry with one service, the janitor and its ctx.  Time passes, and
\* the janitor goroutine takes the step its select statement has ready.
SpecJanitor ==
    Init /\ [][NextJanitor]_vars
        /\ WF_vars(TickReg) /\ WF_vars(RegJanitorReturn)
        /\ WF_vars(RegCleanup /\ reg'.events <= MaxQueued)

\* The VersionManager under registrations and resolutions of one service.
SpecVM == Init /\ [][NextVM]_vars

\* Versions formatted and parsed back, and strings parsed.
SpecPV == Init /\ [][NextPV]_vars

\* The Parser compiling documents, one after the other.
SpecPS == Init /\ [][NextPS]_vars

\* The MCP server's AddSpec and auth-policy tools beside a reader of the registry.
SpecSrv == Init /\ [][NextSrv]_vars

\* The goroutines inside the registry's methods and its mutex.  The Go
\* scheduler runs every goroutine that can run and sync.RWMutex starves
\* neither readers nor writers: a step that is enabled again and again is taken.
SpecLK == Init /\ [][NextLK]_vars /\ \A q \in RegProcs : SF_vars(RegProcStep(q))

=============================================================================
